---- MODULE Spec2Model ----
(***************************************************************************)
(* The research loop controllers of jan-server as state machines:          *)
(*   deep_research         the fixed pipeline (archive/jan-server-0807)    *)
(*   deep_research_stream  the fixed pipeline (server/skills/deep_research)*)
(*   research_chat         the tool-calling loop (server/skills/research)  *)
(* Each controller is an async generator. A state of the model is a        *)
(* position of the generator (pc) at a yield or at an external call,       *)
(* together with its local variables; a step runs the generator to its     *)
(* next yield or external call. Strings are sequences of tokens, so that   *)
(* string concatenation is sequence concatenation.                         *)
(***************************************************************************)
EXTENDS Integers, Sequences, FiniteSets, TLC

VARIABLES
    ctl,               \* the controller this run executes
    pc,                \* position of the generator
    out,               \* frames yielded to the caller so far, in order
    phases,            \* phases entered so far, in order
    count,             \* external requests issued so far, by kind
    query,             \* deep_research: query.query of generate_query
    queries,           \* web_research: the queries argument
    qi,                \* web_research: number of queries already searched
    search_context,    \* web_research: search_context
    search_summary,    \* deep_research: search_summary
    reflection_result, \* deep_research: reflection_result
    loop,              \* deep_research: loop
    provider,          \* the provider's response to the latest search request
    response,          \* the chunks of the open model stream not yet consumed
    e,                 \* the exception caught by "except Exception as e"
    messages,          \* research_chat: the caller's message list
    mcp_tools,         \* research_chat: mcp_tools
    conversation,      \* research_chat: conversation
    iteration,         \* research_chat: iteration
    full_content,      \* research_chat: full_content
    tool_calls,        \* research_chat: tool_calls
    finish_reason,     \* research_chat: finish_reason
    received,          \* tool-call deltas consumed from the stream of this turn
    tool_response,     \* the bridge's response to the latest request of the run
    ti,                \* research_chat: tool calls of this turn already executed
    varied,            \* inputs of this run drawn from the varied sets
    peer,              \* a second run in the same process: its own state
    wire,              \* the bytes sent to a client, and what it decoded
    bridge             \* the Tool Bridge: its latest request and response

drvars == <<query, queries, qi, search_context, search_summary,
            reflection_result, loop, provider>>

rcvars == <<messages, mcp_tools, conversation, iteration, full_content,
            tool_calls, finish_reason, received, tool_response, ti, varied>>

vars == <<ctl, pc, out, e, phases, count, response, drvars, rcvars, peer, wire,
          bridge>>

-----------------------------------------------------------------------------
(* Bounds of the model and constants of the program *)

MaxQueries == 2

MaxChunks == 2

MaxVaried == 1

\* a run that drew from the varied sets draws again only in its first
\* MaxVariedTurn ModelTurns
MaxVariedTurn == 2

MaxDeltas == 2

MaxIndex == 1

MaxPeerSteps == 2

max_search_loop == 3

max_iterations == 10

stream_max_loop == 3

Summaries == {"s1"}

Fragments == {"x", "y"}

SeqsUpTo(S, n) == UNION {[1..k -> S] : k \in 0..n}

Prefixes(s, n) == {SubSeq(s, 1, k) : k \in 0..n}

\* the query lists a QueryGen completion returns, and the follow-up lists of
\* a reflection: up to MaxQueries queries, in a fixed order
QueryLists == Prefixes(<<"a", "b", "c", "d">>, MaxQueries)

FollowUpLists == Prefixes(<<"d", "c", "b", "a">>, MaxQueries)

-----------------------------------------------------------------------------
(* Frames *)

NULL == "<None>"

Msg(prefix, text) == [prefix |-> prefix, text |-> text, items |-> <<>>]

create_sse_message(content) == [json |-> TRUE, content |-> content]

core_create_sse_message(message_type, content) ==
    [json |-> TRUE, content |-> Msg(message_type, content)]

ResultsFrame(list) ==
    [json |-> TRUE, content |-> [prefix |-> "results", text |-> "", items |-> list]]

create_finalise_message(content) == [json |-> TRUE, content |-> Msg("", content)]

DoneFrame == [json |-> FALSE, content |-> Msg("[DONE]", "")]

Notify(text) ==
    IF ctl = "deep_research_stream"
    THEN core_create_sse_message("notify", text)
    ELSE create_sse_message(Msg("[NOTIFY]", text))

ErrorFrame(exception) ==
    IF ctl = "deep_research_stream"
    THEN core_create_sse_message("error", exception)
    ELSE create_sse_message(Msg("[ERROR]", exception))

ContentFrame(text) ==
    IF ctl = "deep_research_stream"
    THEN create_finalise_message(text)
    ELSE create_sse_message(Msg("", text))

IsDone(f) == ~f.json

IsNotify(f) == f.json /\ f.content.prefix \in {"[NOTIFY]", "notify"}

IsError(f) == f.json /\ f.content.prefix \in {"[ERROR]", "error"}

IsContent(f) == f.json /\ f.content.prefix = ""

-----------------------------------------------------------------------------
(* Responses of the collaborators *)

\* a chunk of a model stream; fail marks the point where the stream raises
Chunk(content) == [content |-> content, tool_calls |-> <<>>, finish_reason |-> NULL, fail |-> FALSE]

FailChunk == [content |-> NULL, tool_calls |-> <<>>, finish_reason |-> NULL, fail |-> TRUE]

FinalChunks == {Chunk(c) : c \in Fragments \cup {NULL}}

\* the streams of a Finalize completion: chunks, then the end or a failure
FinalStreams ==
    LET body == SeqsUpTo(FinalChunks, MaxChunks)
    IN  body \cup {Append(b, FailChunk) : b \in body}

\* the streams a run draws without spending its varied budget
PlainFinalStreams ==
    {<<Chunk("x"), Chunk(NULL)>>, <<Chunk("x"), FailChunk>>}

create_message(role, content) ==
    [role |-> role, content |-> content, tool_calls |-> <<>>, tool_call_id |-> NULL]

\* a tool-call delta of a chunk; NULL marks an absent field
Delta(index, id, name, arguments) ==
    [indexed |-> TRUE, index |-> index, id |-> id, name |-> name,
     arguments |-> arguments]

Unindexed(id, name, arguments) ==
    [indexed |-> FALSE, index |-> 0, id |-> id, name |-> name,
     arguments |-> arguments]

ToolChunk(deltas) ==
    [content |-> NULL, tool_calls |-> deltas, finish_reason |-> NULL, fail |-> FALSE]

FinishChunk(reason) ==
    [content |-> NULL, tool_calls |-> <<>>, finish_reason |-> reason, fail |-> FALSE]

\* the model answers in text
AnswerStream == <<Chunk("x"), Chunk(NULL), Chunk("y"), FinishChunk("stop")>>

\* the model requests one tool; name and arguments arrive in fragments
CallStream ==
    <<ToolChunk(<<Delta(0, "a", "sea", NULL)>>),
      ToolChunk(<<Delta(0, NULL, "rch", NULL)>>),
      ToolChunk(<<Delta(0, NULL, NULL, "{}")>>),
      FinishChunk("tool_calls")>>

\* tool-call deltas arrive, none becomes complete: one without an index, one
\* without an id
IncompleteStream ==
    <<ToolChunk(<<Unindexed("a", "search", "{}")>>),
      ToolChunk(<<Delta(0, NULL, "search", "{}")>>),
      FinishChunk("tool_calls")>>

\* a complete tool call for which no arguments fragment arrived
NoArgsStream ==
    <<ToolChunk(<<Delta(0, "a", "search", NULL)>>), FinishChunk("tool_calls")>>

\* two complete tool calls, the arguments of the second are no JSON
BadArgsStream ==
    <<ToolChunk(<<Delta(0, "a", "search", "{}"), Delta(1, "b", "scrape", "{")>>),
      FinishChunk("tool_calls")>>

\* the stream fails after a fragment
FailStream == <<Chunk("x"), FailChunk>>

\* text, then a tool call at index 1 only: index 0 stays blank
GapStream ==
    <<Chunk("x"), ToolChunk(<<Delta(1, "b", "scrape", "{}")>>),
      FinishChunk("tool_calls")>>

\* two complete tool calls in one chunk
TwoCallStream ==
    <<ToolChunk(<<Delta(0, "a", "search", "{}"), Delta(1, "b", "scrape", "{}")>>),
      FinishChunk("tool_calls")>>

\* the first chunk carries the empty string as content, then a tool call
EmptyContentStream ==
    <<Chunk(""), ToolChunk(<<Delta(0, "a", "search", "{}")>>),
      FinishChunk("tool_calls")>>

\* a chunk with content arrives after the chunk with the finish reason
LateContentStream == <<Chunk("x"), FinishChunk("stop"), Chunk("y")>>

\* the streams of a ModelTurn; a run draws at most MaxVaried times from the
\* varied streams and tool results
PlainStreams ==
    {AnswerStream, CallStream, IncompleteStream, NoArgsStream, BadArgsStream,
     FailStream, <<>>}

VariedStreams == {GapStream, TwoCallStream, EmptyContentStream, LateContentStream}

\* a result of call_mcp_tool: the bridge's result with a content list, a
\* result without one, an error dict, None
ContentResult == [kind |-> "content", text |-> "found"]

\* what the POST of a tools/call request gives: an exception of the client,
\* or a status and, for status 200, a body with the keys present in it; a
\* result of NULL is the JSON null
BridgeResponse(raises, status, keys, result, message) ==
    [raises |-> raises, status |-> status, keys |-> keys, result |-> result,
     message |-> message]

NoResponse == BridgeResponse(FALSE, 0, {}, NULL, NULL)

\* the bridge executed the tool
OkResponse == BridgeResponse(FALSE, 200, {"result", "error"}, "content", NULL)

\* a result that holds no content list
OtherResponse == BridgeResponse(FALSE, 200, {"result"}, "other", NULL)

\* a JSON-RPC error of the bridge: MCPResponse serialises "result": null
RpcErrorResponse ==
    BridgeResponse(FALSE, 200, {"result", "error"}, NULL, "Unknown tool")

\* a JSON-RPC error that carries no "result" member
BareErrorResponse == BridgeResponse(FALSE, 200, {"error"}, NULL, "Unknown tool")

HttpErrorResponse == BridgeResponse(FALSE, 500, {}, NULL, NULL)

TransportError == BridgeResponse(TRUE, 0, {}, NULL, "ClientConnectorError")

PlainResponses == {OkResponse}

VariedResponses ==
    {OtherResponse, RpcErrorResponse, BareErrorResponse, HttpErrorResponse,
     TransportError}

\* call_mcp_tool on the bridge's response
call_mcp_tool(r) ==
    IF r.raises THEN [kind |-> "error", text |-> r.message]
    ELSE IF r.status = 200
         THEN IF "result" \in r.keys
              THEN IF r.result = NULL THEN [kind |-> "none", text |-> ""]
                   ELSE IF r.result = "content" THEN ContentResult
                   ELSE [kind |-> "other", text |-> "{}"]
              ELSE IF "error" \in r.keys
                   THEN [kind |-> "error", text |-> r.message]
                   ELSE [kind |-> "none", text |-> ""]
         ELSE [kind |-> "error", text |-> "HTTP " \o ToString(r.status)]

\* the bridge answered the tools/list request with its tools
ToolsListResponse == BridgeResponse(FALSE, 200, {"result"}, "tools", NULL)

\* what the POST of the tools/list request gives; a run draws the varied
\* ones from its varied budget
PlainListResponses == {ToolsListResponse, TransportError}

VariedListResponses == {HttpErrorResponse, RpcErrorResponse}

\* get_mcp_tools on the bridge's response: the tools in the schema of the
\* model, or [] for an exception, a status other than 200, a body without
\* result.tools
get_mcp_tools(r) ==
    IF r.raises THEN <<>>
    ELSE IF r.status = 200 /\ r.result = "tools"
         THEN <<"google_search", "scrape">>
         ELSE <<>>

\* the tool lists get_mcp_tools returns: the bridge's tools, or [] on failure
ToolLists == {get_mcp_tools(r) : r \in PlainListResponses \cup VariedListResponses}

\* as ValidJson, the empty string read as no arguments
ValidJson_EmptyOk(arguments) == arguments \in {<<>>, <<"{}">>, <<"{", "}">>}

\* json.loads accepts the arguments string
ValidJson(arguments) == arguments \in {<<"{}">>, <<"{", "}">>}

\* the dict parsed from a reflection completion; keys are the keys present
ReflectionResults ==
    {r \in [keys : SUBSET {"is_sufficient", "knowledge_gap", "follow_up_queries"},
            is_sufficient : {"true", "false", "str"},
            follow_up_queries : FollowUpLists] :
        /\ "is_sufficient" \notin r.keys => r.is_sufficient = "false"
        /\ "follow_up_queries" \notin r.keys => r.follow_up_queries = <<>>}

\* the reflections a run draws without spending its varied budget: all
\* keys present, a JSON boolean, a full list of follow-up queries
PlainReflectionResults ==
    {r \in ReflectionResults :
        /\ r.keys = {"is_sufficient", "knowledge_gap", "follow_up_queries"}
        /\ r.is_sufficient \in {"true", "false"}
        /\ Len(r.follow_up_queries) = MaxQueries}

NoReflection == [keys |-> {}, is_sufficient |-> "false", follow_up_queries |-> <<>>]

\* Python truthiness of a parsed JSON value: true and a non-empty string
Truthy(v) == v \in {"true", "str"}

\* what the POST of a search request gives: the provider's status and the
\* kind of the body: "results" is JSON with organic results, "json" is JSON
\* without them (an empty result, or an error object), "text" is no JSON
ProviderResponse(status, body) == [status |-> status, body |-> body]

NoProvider == ProviderResponse(0, "text")

FoundResponse == ProviderResponse(200, "results")

EmptyResponse == ProviderResponse(200, "json")

\* a 3xx answer without a Location header is not followed by requests
RedirectResponse == ProviderResponse(300, "json")

ClientErrorResponse == ProviderResponse(404, "json")

ServerErrorResponse == ProviderResponse(500, "text")

NotJsonResponse == ProviderResponse(200, "text")

PlainProviderResponses ==
    {FoundResponse, ClientErrorResponse, ServerErrorResponse, NotJsonResponse}

VariedProviderResponses == {EmptyResponse, RedirectResponse}

\* "response.raise_for_status()" raises for 4xx and 5xx only
raise_for_status(r) == 400 <= r.status /\ r.status < 600

\* SerperClient.search for the query q: the exception raised, or NULL and
\* the parsed body
search(q, r) ==
    IF raise_for_status(r) THEN [raises |-> "HTTPError", q |-> q, organic |-> FALSE]
    ELSE IF r.body = "text"
         THEN [raises |-> "JSONDecodeError", q |-> q, organic |-> FALSE]
         ELSE [raises |-> NULL, q |-> q, organic |-> r.body = "results"]

\* the formatted text block of a search result: the numbered entries of its
\* organic results, the empty string when it has none
format_search_results(search_results) ==
    [block |-> IF search_results.organic THEN "results" ELSE "",
     q |-> search_results.q]

Newline == [block |-> "\n", q |-> ""]

-----------------------------------------------------------------------------
(* State after construction: the generator exists and has not run *)

Controllers == {"deep_research", "deep_research_stream", "research_chat"}

\* the state of a second run: its input, its conversation (research_chat),
\* its search context and summary (deep_research), the steps it has taken
Peer(c, p, conv, context, summary, n) ==
    [ctl |-> c, pc |-> p, messages |-> <<create_message("user", <<"topic2">>)>>,
     conversation |-> conv, search_context |-> context,
     search_summary |-> summary, steps |-> n]

\* no second run
NoPeer == Peer("none", "end", <<>>, <<>>, <<>>, 0)

\* a stream on the wire: the fragments encoded so far, the frame made of
\* each, the bytes the client has not consumed, the contents it decoded,
\* whether it could decode every frame, the time of the server's clock
Wire(fragments, frames, bytes, decoded, ok, clock) ==
    [fragments |-> fragments, frames |-> frames, bytes |-> bytes,
     decoded |-> decoded, ok |-> ok, clock |-> clock]

NoWire == Wire(<<>>, <<>>, <<>>, <<>>, TRUE, 0)

\* MCPRequest: method, id and params; NULL is None
MCPRequest(id, method, params) == [id |-> id, method |-> method, params |-> params]

\* params of None
NoParams == [present |-> FALSE, name |-> NULL, arguments |-> "absent"]

NoRequest == MCPRequest(NULL, "", NoParams)

\* error of None
NoError == [code |-> 0, message |-> NULL]

\* MCPResponse(id=..., result=...) and MCPResponse(id=..., error=...); raises
\* names an exception that left handle_request
MCPResult(id, result) ==
    [raises |-> NULL, jsonrpc |-> "2.0", id |-> id, result |-> result,
     error |-> NoError]

MCPError(id, code, message) ==
    [raises |-> NULL, jsonrpc |-> "2.0", id |-> id, result |-> NULL,
     error |-> [code |-> code, message |-> message]]

MCPRaised(exception) ==
    [raises |-> exception, jsonrpc |-> "2.0", id |-> NULL, result |-> NULL,
     error |-> NoError]

\* the bridge: whether it has a provider client, the request it holds, the
\* outcome of the provider call that request would make, its response, and
\* the requests served
Bridge(configured, request, outcome, resp, served) ==
    [configured |-> configured, request |-> request, outcome |-> outcome,
     response |-> resp, served |-> served]

NoBridge == Bridge(FALSE, NoRequest, "ok", MCPRaised(NULL), 0)

ZeroCount == [llm |-> 0, stream |-> 0, tools_list |-> 0, tool_call |-> 0]

Init ==
    /\ ctl \in Controllers
    /\ pc = "init"
    /\ out = <<>>
    /\ phases = <<>>
    /\ count = ZeroCount
    /\ query = <<>>
    /\ queries = <<>>
    /\ qi = 0
    /\ search_context = <<>>
    /\ search_summary = <<>>
    /\ reflection_result = NoReflection
    /\ loop = 0
    /\ provider = NoProvider
    /\ response = <<>>
    /\ e = NULL
    /\ messages = <<create_message("user", <<"topic">>)>>
    /\ mcp_tools = <<>>
    /\ conversation = <<>>
    /\ iteration = 0
    /\ full_content = <<>>
    /\ tool_calls = <<>>
    /\ finish_reason = NULL
    /\ received = <<>>
    /\ tool_response = NoResponse
    /\ ti = 0
    /\ varied = 0
    /\ peer = NoPeer
    /\ wire = NoWire
    /\ bridge = NoBridge

Inc(kind) == [count EXCEPT ![kind] = @ + 1]

\* a yield of the try block
Emit(f) ==
    /\ out' = Append(out, f)
    /\ e' = e

\* the step yields nothing and raises nothing
Silent ==
    /\ out' = out
    /\ e' = e

\* as Raise, with a fixed text in place of str(e)
Raise_FixedText(exception) ==
    /\ e' = exception
    /\ out' = Append(out, ErrorFrame("error"))
    /\ pc' = "error"

\* the except clause of the controller: yield one Error frame with str(e)
Raise(exception) ==
    /\ e' = exception
    /\ out' = Append(out, ErrorFrame(exception))
    /\ pc' = "error"

Archive == ctl = "deep_research"

Stream == ctl = "deep_research_stream"

Fixed == ctl \in {"deep_research", "deep_research_stream"}

-----------------------------------------------------------------------------
(* The fixed pipeline *)

\* positions of the first round and of a follow-up round
SearchPc(rk) == IF rk = "first" THEN "search_first" ELSE "search_loop"

\* as ReflectionPc, the first round continuing at Step 4
ReflectionPc_Skip(rk) == IF rk = "first" THEN "finalize" ELSE "reflection_loop"

ReflectionPc(rk) == IF rk = "first" THEN "reflection_first" ELSE "reflection_loop"

ReflectedPc(rk) == IF rk = "first" THEN "reflected_first" ELSE "reflected_loop"

Rounds == {"first", "loop"}

\* Step 1 begins: the first Notify
DR_Start ==
    /\ Fixed /\ pc = "init"
    /\ Emit(Notify("Starting query generation..."))
    /\ pc' = "generate_query"
    /\ UNCHANGED <<bridge, wire, peer, provider, ctl, phases, count, query, queries, qi, search_context,
                   search_summary, reflection_result, loop, response, rcvars>>

GenerateQueryErrors == {"APIError", "ParseError", "ValidationError"}

\* as DR_GenerateQuery, an exception of generate_query caught where it
\* is raised and the run going on with no queries
DR_GenerateQuery_Recover ==
    /\ Fixed /\ pc = "generate_query"
    /\ phases' = Append(phases, "QueryGen")
    /\ count' = Inc("llm")
    /\ \/ \E exception \in GenerateQueryErrors :
            /\ e' = exception
            /\ query' = <<>>
            /\ out' = Append(out, Notify("Finished query generation"))
            /\ pc' = IF Stream THEN "results" ELSE "query_done"
       \/ \E q \in QueryLists :
            /\ query' = q
            /\ Emit(Notify("Finished query generation"))
            /\ pc' = IF Stream THEN "results" ELSE "query_done"
    /\ UNCHANGED <<bridge, wire, peer, provider, ctl, queries, qi, search_context, search_summary,
                   reflection_result, loop, response, rcvars>>

\* generate_query: one completion, parsed and validated as GenerateQueryData
DR_GenerateQuery ==
    /\ Fixed /\ pc = "generate_query"
    /\ phases' = Append(phases, "QueryGen")
    /\ count' = Inc("llm")
    /\ \/ \E exception \in GenerateQueryErrors :
            /\ Raise(exception)
            /\ UNCHANGED query
       \/ \E q \in QueryLists :
            /\ query' = q
            /\ Emit(Notify("Finished query generation"))
            /\ pc' = IF Stream THEN "results" ELSE "query_done"
    /\ UNCHANGED <<bridge, wire, peer, provider, ctl, queries, qi, search_context, search_summary,
                   reflection_result, loop, response, rcvars>>

\* deep_research_stream also yields the generated queries
DR_Results ==
    /\ Stream /\ pc = "results"
    /\ Emit(ResultsFrame(query))
    /\ pc' = "query_done"
    /\ UNCHANGED <<bridge, wire, peer, provider, ctl, phases, count, query, queries, qi, search_context,
                   search_summary, reflection_result, loop, response, rcvars>>

\* as DR_StartWebResearch, without the Notify
DR_StartWebResearch_Silent ==
    /\ Fixed /\ pc = "query_done"
    /\ Silent
    /\ pc' = "web_research"
    /\ UNCHANGED <<bridge, wire, peer, ctl, phases, count, response, drvars, rcvars>>

\* Step 2 begins
DR_StartWebResearch ==
    /\ Fixed /\ pc = "query_done"
    /\ Emit(Notify("Starting web research..."))
    /\ pc' = "web_research"
    /\ UNCHANGED <<bridge, wire, peer, provider, ctl, phases, count, query, queries, qi, search_context,
                   search_summary, reflection_result, loop, response, rcvars>>

\* as WR_Enter, every round searching the QueryGen queries
WR_Enter_SameQueries(rk) ==
    /\ Fixed
    /\ pc = IF rk = "first" THEN "web_research" ELSE "more_info"
    /\ IF rk = "loop" /\ "follow_up_queries" \notin reflection_result.keys
       THEN /\ Raise("KeyError")
            /\ UNCHANGED <<phases, queries, qi, search_context>>
       ELSE /\ phases' = Append(phases, "WebResearch")
            /\ queries' = query
            /\ qi' = 0
            /\ search_context' = <<>>
            /\ pc' = SearchPc(rk)
            /\ Silent
    /\ UNCHANGED <<bridge, wire, peer, provider, ctl, count, query, search_summary, reflection_result, loop,
                   response, rcvars>>

\* as WR_Enter, the search context of the round before kept
WR_Enter_KeepContext(rk) ==
    /\ Fixed
    /\ pc = IF rk = "first" THEN "web_research" ELSE "more_info"
    /\ IF rk = "loop" /\ "follow_up_queries" \notin reflection_result.keys
       THEN /\ Raise("KeyError")
            /\ UNCHANGED <<phases, queries, qi, search_context>>
       ELSE /\ phases' = Append(phases, "WebResearch")
            /\ queries' = IF rk = "first" THEN query
                          ELSE reflection_result.follow_up_queries
            /\ qi' = 0
            /\ search_context' = search_context
            /\ pc' = SearchPc(rk)
            /\ Silent
    /\ UNCHANGED <<bridge, wire, peer, provider, ctl, count, query, search_summary, reflection_result, loop,
                   response, rcvars>>

\* web_research is called: with query.query in the first round, with
\* reflection_result["follow_up_queries"] in a follow-up round
WR_Enter(rk) ==
    /\ Fixed
    /\ pc = IF rk = "first" THEN "web_research" ELSE "more_info"
    /\ IF rk = "loop" /\ "follow_up_queries" \notin reflection_result.keys
       THEN /\ Raise("KeyError")
            /\ UNCHANGED <<phases, queries, qi, search_context>>
       ELSE /\ phases' = Append(phases, "WebResearch")
            /\ queries' = IF rk = "first" THEN query
                          ELSE reflection_result.follow_up_queries
            /\ qi' = 0
            /\ search_context' = <<>>
            /\ pc' = SearchPc(rk)
            /\ Silent
    /\ UNCHANGED <<bridge, wire, peer, provider, ctl, count, query, search_summary, reflection_result, loop,
                   response, rcvars>>

\* as WR_Search, the formatted results put in front of the context
WR_Search_Prepend(rk) ==
    /\ Fixed /\ pc = SearchPc(rk)
    /\ qi < Len(queries)
    /\ \E r \in PlainProviderResponses \cup VariedProviderResponses :
          /\ r \in VariedProviderResponses => varied < MaxVaried
          /\ varied' = IF r \in VariedProviderResponses THEN varied + 1
                        ELSE varied
          /\ provider' = r
          /\ LET search_results == search(queries[qi + 1], r)
             IN  IF search_results.raises # NULL
                 THEN /\ Raise(search_results.raises)
                      /\ UNCHANGED <<qi, search_context>>
                 ELSE /\ search_context' =
                           <<format_search_results(search_results), Newline>>
                               \o search_context
                      /\ qi' = qi + 1
                      /\ pc' = pc /\ Silent
    /\ UNCHANGED <<bridge, wire, peer, ctl, phases, count, query, queries, search_summary,
                   reflection_result, loop, response, messages, mcp_tools,
                   conversation, iteration, full_content, tool_calls,
                   finish_reason, received, tool_response, ti>>

\* web_research, one turn of "for query in queries": search and format
WR_Search(rk) ==
    /\ Fixed /\ pc = SearchPc(rk)
    /\ qi < Len(queries)
    /\ \E r \in PlainProviderResponses \cup VariedProviderResponses :
          /\ r \in VariedProviderResponses => varied < MaxVaried
          /\ varied' = IF r \in VariedProviderResponses THEN varied + 1
                        ELSE varied
          /\ provider' = r
          /\ LET search_results == search(queries[qi + 1], r)
             IN  IF search_results.raises # NULL
                 THEN /\ Raise(search_results.raises)
                      /\ UNCHANGED <<qi, search_context>>
                 ELSE /\ search_context' =
                           search_context
                               \o <<format_search_results(search_results), Newline>>
                      /\ qi' = qi + 1
                      /\ pc' = pc /\ Silent
    /\ UNCHANGED <<bridge, wire, peer, ctl, phases, count, query, queries, search_summary,
                   reflection_result, loop, response, messages, mcp_tools,
                   conversation, iteration, full_content, tool_calls,
                   finish_reason, received, tool_response, ti>>

\* as NewSummary, with "=" for "+=" in the follow-up rounds
NewSummary_Replace(rk, content) == <<content>>

\* the summary the controller holds after a round returned content
NewSummary(rk, content) ==
    IF rk = "loop" /\ Archive
    THEN search_summary \o <<"\n\n", content>>
    ELSE <<content>>

\* as WR_Summarise, the completion inside the loop over the queries
WR_Summarise_PerQuery(rk) ==
    /\ Fixed /\ pc = SearchPc(rk)
    /\ qi = Len(queries)
    /\ count' = [count EXCEPT !.llm = @ + Len(queries)]
    /\ \/ /\ Raise("APIError")
          /\ UNCHANGED search_summary
       \/ \E content \in Summaries :
            /\ search_summary' = NewSummary(rk, content)
            /\ IF rk = "loop" /\ Archive
               THEN /\ Emit(Notify("Starting reflection..."))
                    /\ pc' = "reflection_loop"
               ELSE /\ Emit(Notify("Finished web research"))
                    /\ pc' = IF rk = "first" THEN "web_done" ELSE "web_done_loop"
    /\ UNCHANGED <<bridge, wire, peer, provider, ctl, phases, query, queries, qi, search_context,
                   reflection_result, loop, response, rcvars>>

\* web_research after the last query: one completion on the search context
WR_Summarise(rk) ==
    /\ Fixed /\ pc = SearchPc(rk)
    /\ qi = Len(queries)
    /\ count' = Inc("llm")
    /\ \/ /\ Raise("APIError")
          /\ UNCHANGED search_summary
       \/ \E content \in Summaries :
            /\ search_summary' = NewSummary(rk, content)
            /\ IF rk = "loop" /\ Archive
               THEN /\ Emit(Notify("Starting reflection..."))
                    /\ pc' = "reflection_loop"
               ELSE /\ Emit(Notify("Finished web research"))
                    /\ pc' = IF rk = "first" THEN "web_done" ELSE "web_done_loop"
    /\ UNCHANGED <<bridge, wire, peer, provider, ctl, phases, query, queries, qi, search_context,
                   reflection_result, loop, response, rcvars>>

\* Step 3 begins
DR_StartReflection(rk) ==
    /\ Fixed
    /\ pc = IF rk = "first" THEN "web_done" ELSE "web_done_loop"
    /\ Emit(Notify("Starting reflection..."))
    /\ pc' = ReflectionPc(rk)
    /\ UNCHANGED <<bridge, wire, peer, provider, ctl, phases, count, query, queries, qi, search_context,
                   search_summary, reflection_result, loop, response, rcvars>>

ReflectionErrors == {"APIError", "ParseError"}

\* reflection: one completion, parsed as JSON; the dict is not validated
DR_Reflection(rk) ==
    /\ Fixed /\ pc = ReflectionPc(rk)
    /\ phases' = Append(phases, "Reflect")
    /\ count' = Inc("llm")
    /\ \/ \E exception \in ReflectionErrors :
            /\ Raise(exception)
            /\ UNCHANGED <<reflection_result, varied>>
       \/ \E r \in ReflectionResults :
            /\ r \notin PlainReflectionResults => varied < MaxVaried
            /\ varied' = IF r \in PlainReflectionResults THEN varied ELSE varied + 1
            /\ reflection_result' = r
            /\ Emit(Notify(IF Stream THEN "Finished reflection..."
                                     ELSE "Finished reflection"))
            /\ pc' = ReflectedPc(rk)
    /\ UNCHANGED <<bridge, wire, peer, provider, ctl, query, queries, qi, search_context, search_summary,
                   loop, response, messages, mcp_tools, conversation, iteration, full_content,
                   tool_calls, finish_reason, received, tool_response, ti>>

MaxLoop == IF Stream THEN stream_max_loop ELSE max_search_loop

\* as LoopCond, with "<=" for "<"
LoopCond_Inclusive(r, n) == ~Truthy(r.is_sufficient) /\ n <= MaxLoop

\* as LoopCond, the bound one too small
LoopCond_Short(r, n) == ~Truthy(r.is_sufficient) /\ n < MaxLoop - 1

\* as LoopCond, with "or" for "and"
LoopCond_Or(r, n) == ~Truthy(r.is_sufficient) \/ n < MaxLoop

\* the condition of "while not reflection_result[...] and loop < max"
LoopCond(r, n) == ~Truthy(r.is_sufficient) /\ n < MaxLoop

\* as DR_LoopCheck, a missing is_sufficient read as insufficient
DR_LoopCheck_Default(rk) ==
    /\ Fixed /\ pc = ReflectedPc(rk)
    /\ loop' = IF rk = "first" THEN 0 ELSE loop + 1
    /\ IF LoopCond(reflection_result, loop')
       THEN /\ Emit(Notify(IF Stream THEN "Starting web research..."
                                     ELSE "Finding more information..."))
            /\ pc' = "more_info"
       ELSE /\ pc' = "finalize"
            /\ Silent
    /\ UNCHANGED <<bridge, wire, peer, provider, ctl, phases, count, query, queries, qi, search_context,
                   search_summary, reflection_result, response, rcvars>>

\* after a reflection: "loop = 0" or "loop += 1", then the while condition
DR_LoopCheck(rk) ==
    /\ Fixed /\ pc = ReflectedPc(rk)
    /\ loop' = IF rk = "first" THEN 0 ELSE loop + 1
    /\ IF "is_sufficient" \notin reflection_result.keys
       THEN Raise("KeyError")
       ELSE IF LoopCond(reflection_result, loop')
            THEN /\ Emit(Notify(IF Stream THEN "Starting web research..."
                                          ELSE "Finding more information..."))
                 /\ pc' = "more_info"
            ELSE /\ pc' = "finalize"
                 /\ Silent
    /\ UNCHANGED <<bridge, wire, peer, provider, ctl, phases, count, query, queries, qi, search_context,
                   search_summary, reflection_result, response, rcvars>>

\* Step 4: finalize_answer opens one streaming completion
DR_Finalize ==
    /\ Fixed /\ pc = "finalize"
    /\ phases' = Append(phases, "Finalize")
    /\ count' = Inc("stream")
    /\ \/ /\ Raise("APIError")
          /\ UNCHANGED <<response, varied>>
       \/ \E s \in FinalStreams :
            /\ s \notin PlainFinalStreams => varied < MaxVaried
            /\ varied' = IF s \in PlainFinalStreams THEN varied ELSE varied + 1
            /\ response' = s
            /\ pc' = "stream"
            /\ Silent
    /\ UNCHANGED <<bridge, wire, peer, provider, ctl, query, queries, qi, search_context, search_summary,
                   reflection_result, loop, messages, mcp_tools, conversation, iteration, full_content,
                   tool_calls, finish_reason, received, tool_response, ti>>

\* as DR_FinalizeChunk, a failed stream resumed by a new completion
DR_FinalizeChunk_Resume ==
    /\ Fixed /\ pc = "stream"
    /\ IF response = <<>>
       THEN /\ Emit(DoneFrame)
            /\ pc' = "done"
            /\ UNCHANGED <<response, count>>
       ELSE IF Head(response).fail
            THEN /\ response' = Tail(response)
                 /\ count' = Inc("stream")
                 /\ pc' = pc
                 /\ Silent
            ELSE /\ response' = Tail(response)
                 /\ pc' = pc
                 /\ UNCHANGED count
                 /\ IF Head(response).content # NULL
                    THEN Emit(ContentFrame(Head(response).content))
                    ELSE Silent
    /\ UNCHANGED <<bridge, wire, peer, provider, ctl, phases, query, queries, qi, search_context,
                   search_summary, reflection_result, loop, rcvars>>

\* as DR_FinalizeChunk, only the fragments "x" yielded
DR_FinalizeChunk_Drop ==
    /\ Fixed /\ pc = "stream"
    /\ IF response = <<>>
       THEN /\ Emit(DoneFrame)
            /\ pc' = "done"
            /\ UNCHANGED response
       ELSE IF Head(response).fail
            THEN /\ Raise("APIError")
                 /\ UNCHANGED response
            ELSE /\ response' = Tail(response)
                 /\ pc' = pc
                 /\ IF Head(response).content = "x"
                    THEN Emit(ContentFrame(Head(response).content))
                    ELSE Silent
    /\ UNCHANGED <<bridge, wire, peer, provider, ctl, phases, count, query, queries, qi, search_context,
                   search_summary, reflection_result, loop, rcvars>>

\* Step 4, one chunk of the stream; after the last one the Done sentinel
DR_FinalizeChunk ==
    /\ Fixed /\ pc = "stream"
    /\ IF response = <<>>
       THEN /\ Emit(DoneFrame)
            /\ pc' = "done"
            /\ UNCHANGED response
       ELSE IF Head(response).fail
            THEN /\ Raise("APIError")
                 /\ UNCHANGED response
            ELSE /\ response' = Tail(response)
                 /\ pc' = pc
                 /\ IF Head(response).content # NULL
                    THEN Emit(ContentFrame(Head(response).content))
                    ELSE Silent
    /\ UNCHANGED <<bridge, wire, peer, provider, ctl, phases, count, query, queries, qi, search_context,
                   search_summary, reflection_result, loop, rcvars>>

\* as AfterError, the Done sentinel inside the try block and so skipped
AfterError_NoDone ==
    /\ pc = "error"
    /\ Silent
    /\ pc' = "done"
    /\ UNCHANGED <<bridge, wire, peer, ctl, phases, count, response, drvars, rcvars>>

\* after the except clause: the Done sentinel
AfterError ==
    /\ pc = "error"
    /\ Emit(DoneFrame)
    /\ pc' = "done"
    /\ UNCHANGED <<bridge, wire, peer, provider, ctl, phases, count, query, queries, qi, search_context,
                   search_summary, reflection_result, loop, response, rcvars>>

\* the generator returns after the Done sentinel was consumed
Return ==
    /\ pc = "done"
    /\ pc' = "end"
    /\ UNCHANGED <<bridge, wire, peer, provider, ctl, out, e, phases, count, query, queries, qi, search_context,
                   search_summary, reflection_result, loop, response, rcvars>>

\* as Cancel, the open stream drained and one more completion requested
\* while the generator is closed
Cancel_Background ==
    /\ pc \notin {"end", "closed"}
    /\ pc' = "closed"
    /\ response' = <<>>
    /\ count' = Inc("llm")
    /\ UNCHANGED <<bridge, wire, peer, ctl, out, e, phases, drvars, rcvars>>

\* the consumer closes the generator (client disconnect): GeneratorExit and
\* CancelledError are no Exception, the except clause does not run
Cancel ==
    /\ pc \notin {"end", "closed"}
    /\ pc' = "closed"
    /\ UNCHANGED <<bridge, wire, peer, provider, ctl, out, e, phases, count, query, queries, qi, search_context,
                   search_summary, reflection_result, loop, response, rcvars>>

-----------------------------------------------------------------------------
(* The tool-calling loop *)

Chat == ctl = "research_chat"

system_message == create_message("system", <<"research_system_prompt">>)

Thinking(n) ==
    [json |-> TRUE,
     content |-> [prefix |-> "[NOTIFY]", text |-> "Thinking... (iteration)",
                  items |-> <<ToString(n)>>]]

ToolNotify(text, tool_name) ==
    [json |-> TRUE,
     content |-> [prefix |-> "[NOTIFY]", text |-> text, items |-> tool_name]]

\* as WhileHead, the exhausted cap raising an exception
WhileHead_CapError(n) ==
    IF n < max_iterations
    THEN /\ iteration' = n + 1
         /\ Emit(Thinking(n + 1))
         /\ pc' = "model_turn"
    ELSE /\ iteration' = n
         /\ Raise("MaxIterations")

\* as WhileHead, with "<=" for "<"
WhileHead_Inclusive(n) ==
    IF n <= max_iterations
    THEN /\ iteration' = n + 1
         /\ Emit(Thinking(n + 1))
         /\ pc' = "model_turn"
    ELSE /\ iteration' = n
         /\ Emit(DoneFrame)
         /\ pc' = "done"

\* the head of "while iteration < max_iterations", reached with iteration = n
WhileHead(n) ==
    IF n < max_iterations
    THEN /\ iteration' = n + 1
         /\ Emit(Thinking(n + 1))
         /\ pc' = "model_turn"
    ELSE /\ iteration' = n
         /\ Emit(DoneFrame)
         /\ pc' = "done"

RC_Start ==
    /\ Chat /\ pc = "init"
    /\ Emit(Notify("Fetching available tools..."))
    /\ pc' = "get_mcp_tools"
    /\ UNCHANGED <<bridge, wire, peer, ctl, phases, count, response, drvars, rcvars>>

\* get_mcp_tools (it never raises), the conversation, the first loop head
RC_GetTools ==
    /\ Chat /\ pc = "get_mcp_tools"
    /\ count' = Inc("tools_list")
    /\ \E r \in PlainListResponses \cup VariedListResponses :
          /\ r \in VariedListResponses => varied < MaxVaried
          /\ varied' = IF r \in VariedListResponses THEN varied + 1 ELSE varied
          /\ tool_response' = r
          /\ mcp_tools' = get_mcp_tools(r)
    /\ conversation' = <<system_message>> \o messages
    /\ WhileHead(0)
    /\ UNCHANGED <<bridge, wire, peer, ctl, phases, response, drvars, messages, full_content,
                   tool_calls, finish_reason, received, ti>>

\* a ModelTurn begins: one streaming completion on the conversation
RC_ModelTurn ==
    /\ Chat /\ pc = "model_turn"
    /\ phases' = Append(phases, "ModelTurn")
    /\ count' = Inc("stream")
    /\ \/ /\ Raise("APIError")
          /\ UNCHANGED <<response, full_content, tool_calls, finish_reason,
                         received, varied>>
       \/ \E s \in PlainStreams \cup VariedStreams :
            /\ s \in VariedStreams =>
                 /\ varied < MaxVaried
                 /\ varied = 0 \/ iteration <= MaxVariedTurn
            /\ varied' = IF s \in VariedStreams THEN varied + 1 ELSE varied
            /\ response' = s
            /\ full_content' = <<>>
            /\ tool_calls' = <<>>
            /\ finish_reason' = NULL
            /\ received' = <<>>
            /\ pc' = "streaming"
            /\ Silent
    /\ UNCHANGED <<bridge, wire, peer, ctl, drvars, messages, mcp_tools, conversation, iteration,
                   tool_response, ti>>

BlankToolCall ==
    [id |-> NULL, type |-> "function", function |-> [name |-> <<>>, arguments |-> <<>>]]

\* "while len(tool_calls) <= tool_call.index: tool_calls.append(blank)"
Extend(tcs, index) ==
    IF Len(tcs) <= index
    THEN tcs \o [i \in 1..(index + 1 - Len(tcs)) |-> BlankToolCall]
    ELSE tcs

\* as ApplyDelta, every delta applied at index 0
ApplyDelta_NoIndex(tcs, d) ==
    IF ~d.indexed THEN tcs
    ELSE LET ext == Extend(tcs, d.index)
             old == ext[1]
             new == [id |-> IF d.id # NULL THEN d.id ELSE old.id,
                     type |-> old.type,
                     function |->
                        [name |-> IF d.name # NULL
                                  THEN Append(old.function.name, d.name)
                                  ELSE old.function.name,
                         arguments |-> IF d.arguments # NULL
                                       THEN Append(old.function.arguments, d.arguments)
                                       ELSE old.function.arguments]]
         IN  [ext EXCEPT ![1] = new]

\* one tool-call delta applied to the accumulated tool calls
ApplyDelta(tcs, d) ==
    IF ~d.indexed THEN tcs
    ELSE LET ext == Extend(tcs, d.index)
             old == ext[d.index + 1]
             new == [id |-> IF d.id # NULL THEN d.id ELSE old.id,
                     type |-> old.type,
                     function |->
                        [name |-> IF d.name # NULL
                                  THEN Append(old.function.name, d.name)
                                  ELSE old.function.name,
                         arguments |-> IF d.arguments # NULL
                                       THEN Append(old.function.arguments, d.arguments)
                                       ELSE old.function.arguments]]
         IN  [ext EXCEPT ![d.index + 1] = new]

RECURSIVE ApplyDeltas(_, _)
ApplyDeltas(tcs, ds) ==
    IF ds = <<>> THEN tcs ELSE ApplyDeltas(ApplyDelta(tcs, Head(ds)), Tail(ds))

\* as concat, with "=" for "+="
concat_Assign(text, fragment) == IF fragment = "" THEN <<>> ELSE <<fragment>>

\* "full_content += delta.content": a text is the sequence of its non-empty
\* fragments, the empty text is <<>>
concat(text, fragment) == IF fragment = "" THEN text ELSE Append(text, fragment)

\* one chunk of the stream: forward the content, collect the tool calls
RC_Chunk ==
    /\ Chat /\ pc = "streaming"
    /\ response # <<>>
    /\ LET chunk == Head(response)
       IN  IF chunk.fail
           THEN /\ Raise("APIError")
                /\ UNCHANGED <<response, full_content, tool_calls, finish_reason,
                               received>>
           ELSE /\ response' = Tail(response)
                /\ pc' = pc
                /\ IF chunk.content # NULL
                   THEN /\ full_content' = concat(full_content, chunk.content)
                        /\ Emit(create_sse_message(Msg("", chunk.content)))
                   ELSE UNCHANGED full_content /\ Silent
                /\ tool_calls' = ApplyDeltas(tool_calls, chunk.tool_calls)
                /\ finish_reason' = IF chunk.finish_reason # NULL
                                    THEN chunk.finish_reason ELSE finish_reason
                /\ received' = received \o chunk.tool_calls
    /\ UNCHANGED <<bridge, wire, peer, ctl, phases, count, drvars, messages, mcp_tools, conversation,
                   iteration, tool_response, ti, varied>>

\* as IsComplete, the id not looked at
IsComplete_NameOnly(tc) == tc.function.name # <<>>

IsComplete(tc) == tc.id # NULL /\ tc.function.name # <<>>

\* as complete_tool_calls, without the filter
complete_tool_calls_Unfiltered(tcs) == tcs

\* "[tc for tc in tool_calls if tc["id"] and tc["function"]["name"]]"
complete_tool_calls(tcs) == SelectSeq(tcs, IsComplete)

\* the assistant message of a turn; tool_calls <<>> stands for no such key,
\* content <<>> for None ("full_content if full_content else None")
assistant_message(content, tcs) ==
    [role |-> "assistant", content |-> content,
     tool_calls |-> complete_tool_calls(tcs), tool_call_id |-> NULL]

\* as RC_EndOfStream, an assistant message without content and without
\* tool calls not appended
RC_EndOfStream_SkipEmpty ==
    /\ Chat /\ pc = "streaming"
    /\ response = <<>>
    /\ LET am == assistant_message(full_content, tool_calls)
       IN  /\ conversation' = IF am.content = <<>> /\ am.tool_calls = <<>>
                               THEN conversation
                               ELSE Append(conversation, am)
           /\ IF am.tool_calls # <<>>
              THEN /\ tool_calls' = am.tool_calls
                   /\ ti' = 0
                   /\ Emit([json |-> TRUE,
                            content |-> [prefix |-> "[NOTIFY]",
                                         text |-> "Executing tool call(s)...",
                                         items |-> <<ToString(Len(am.tool_calls))>>]])
                   /\ pc' = "executing"
              ELSE /\ Emit(DoneFrame)
                   /\ pc' = "done"
                   /\ UNCHANGED <<tool_calls, ti>>
    /\ UNCHANGED <<bridge, wire, peer, ctl, phases, count, response, drvars, messages, mcp_tools,
                   iteration, full_content, finish_reason, received,
                   tool_response, varied>>

\* as RC_EndOfStream, the loop over the chunks left at the finish reason
RC_EndOfStream_AtFinish ==
    /\ Chat /\ pc = "streaming"
    /\ finish_reason # NULL \/ response = <<>>
    /\ LET am == assistant_message(full_content, tool_calls)
       IN  /\ conversation' = Append(conversation, am)
           /\ IF am.tool_calls # <<>>
              THEN /\ tool_calls' = am.tool_calls
                   /\ ti' = 0
                   /\ Emit([json |-> TRUE,
                            content |-> [prefix |-> "[NOTIFY]",
                                         text |-> "Executing tool call(s)...",
                                         items |-> <<ToString(Len(am.tool_calls))>>]])
                   /\ pc' = "executing"
              ELSE /\ Emit(DoneFrame)
                   /\ pc' = "done"
                   /\ UNCHANGED <<tool_calls, ti>>
    /\ UNCHANGED <<bridge, wire, peer, ctl, phases, count, response, drvars, messages, mcp_tools,
                   iteration, full_content, finish_reason, received,
                   tool_response, varied>>

\* the stream is drained: append the assistant message, then execute the
\* tool calls, or break when there are none
RC_EndOfStream ==
    /\ Chat /\ pc = "streaming"
    /\ response = <<>>
    /\ LET am == assistant_message(full_content, tool_calls)
       IN  /\ conversation' = Append(conversation, am)
           /\ IF am.tool_calls # <<>>
              THEN /\ tool_calls' = am.tool_calls
                   /\ ti' = 0
                   /\ Emit([json |-> TRUE,
                            content |-> [prefix |-> "[NOTIFY]",
                                         text |-> "Executing tool call(s)...",
                                         items |-> <<ToString(Len(am.tool_calls))>>]])
                   /\ pc' = "executing"
              ELSE /\ Emit(DoneFrame)
                   /\ pc' = "done"
                   /\ UNCHANGED <<tool_calls, ti>>
    /\ UNCHANGED <<bridge, wire, peer, ctl, phases, count, response, drvars, messages, mcp_tools,
                   iteration, full_content, finish_reason, received,
                   tool_response, varied>>

\* "for tool_call in tool_calls": parse the arguments, announce the call
RC_ToolArgs ==
    /\ Chat /\ pc \in {"executing", "completed"}
    /\ ti < Len(tool_calls)
    /\ LET tool_call == tool_calls[ti + 1]
       IN  IF ValidJson(tool_call.function.arguments)
           THEN /\ Emit(ToolNotify("Calling ...", tool_call.function.name))
                /\ pc' = "calling"
           ELSE Raise("JSONDecodeError")
    /\ UNCHANGED <<bridge, wire, peer, ctl, phases, count, response, drvars, rcvars>>

format_tool_result(tool_name, result) ==
    IF result.kind = "none"
    THEN <<"Tool ">> \o tool_name \o <<" returned no result">>
    ELSE IF result.kind = "error"
         THEN <<"Error calling ">> \o tool_name \o <<": ", result.text>>
         ELSE <<result.text>>

\* as tool_message, the call's id left out
tool_message_NoId(content, id) ==
    [role |-> "tool", content |-> content, tool_calls |-> <<>>, tool_call_id |-> NULL]

tool_message(content, id) ==
    [role |-> "tool", content |-> content, tool_calls |-> <<>>, tool_call_id |-> id]

\* as RC_CallTool, a failed tool call raising an exception
RC_CallTool_Fatal ==
    /\ Chat /\ pc = "calling"
    /\ phases' = Append(phases, "ToolExecution")
    /\ count' = Inc("tool_call")
    /\ LET tool_call == tool_calls[ti + 1]
       IN  \E r \in PlainResponses \cup VariedResponses :
            /\ r \in VariedResponses =>
                 /\ varied < MaxVaried
                 /\ varied = 0 \/ iteration <= MaxVariedTurn
            /\ varied' = IF r \in VariedResponses THEN varied + 1 ELSE varied
            /\ tool_response' = r
            /\ IF call_mcp_tool(r).kind = "content"
               THEN /\ conversation' =
                         Append(conversation,
                                tool_message(format_tool_result(tool_call.function.name,
                                                                call_mcp_tool(r)),
                                             tool_call.id))
                    /\ Emit(ToolNotify("Completed ...", tool_call.function.name))
                    /\ ti' = ti + 1
                    /\ pc' = "completed"
               ELSE /\ Raise("ToolExecutionError")
                    /\ UNCHANGED <<conversation, ti>>
    /\ UNCHANGED <<bridge, wire, peer, ctl, response, drvars, messages, mcp_tools, iteration,
                   full_content, tool_calls, finish_reason, received>>

\* call_mcp_tool (it never raises), the tool message, the Completed Notify
RC_CallTool ==
    /\ Chat /\ pc = "calling"
    /\ phases' = Append(phases, "ToolExecution")
    /\ count' = Inc("tool_call")
    /\ LET tool_call == tool_calls[ti + 1]
       IN  \E r \in PlainResponses \cup VariedResponses :
            /\ r \in VariedResponses =>
                 /\ varied < MaxVaried
                 /\ varied = 0 \/ iteration <= MaxVariedTurn
            /\ varied' = IF r \in VariedResponses THEN varied + 1 ELSE varied
            /\ tool_response' = r
            /\ conversation' =
                 Append(conversation,
                        tool_message(format_tool_result(tool_call.function.name,
                                                        call_mcp_tool(r)),
                                     tool_call.id))
            /\ Emit(ToolNotify("Completed ...", tool_call.function.name))
    /\ ti' = ti + 1
    /\ pc' = "completed"
    /\ UNCHANGED <<bridge, wire, peer, ctl, response, drvars, messages, mcp_tools, iteration,
                   full_content, tool_calls, finish_reason, received>>

\* as RC_Continue, the tool list fetched again at the loop head
RC_Continue_Refetch ==
    /\ Chat /\ pc = "completed"
    /\ ti = Len(tool_calls)
    /\ count' = Inc("tools_list")
    /\ mcp_tools' \in ToolLists
    /\ WhileHead(iteration)
    /\ UNCHANGED <<bridge, wire, peer, ctl, phases, response, drvars, messages,
                   conversation, full_content, tool_calls, finish_reason,
                   received, tool_response, ti, varied>>

\* as RC_Continue, the "continue" inside the loop over the tool calls
RC_Continue_Early ==
    /\ Chat /\ pc = "completed"
    /\ ti >= 1
    /\ WhileHead(iteration)
    /\ UNCHANGED <<bridge, wire, peer, ctl, phases, count, response, drvars, messages, mcp_tools,
                   conversation, full_content, tool_calls, finish_reason,
                   received, tool_response, ti, varied>>

\* as RC_Continue, with "break" for "continue"
RC_Continue_Break ==
    /\ Chat /\ pc = "completed"
    /\ ti = Len(tool_calls)
    /\ Emit(DoneFrame)
    /\ pc' = "done"
    /\ UNCHANGED <<bridge, wire, peer, ctl, phases, count, response, drvars, rcvars>>

\* "continue" after the last tool call of the turn: the loop head
RC_Continue ==
    /\ Chat /\ pc = "completed"
    /\ ti = Len(tool_calls)
    /\ WhileHead(iteration)
    /\ UNCHANGED <<bridge, wire, peer, ctl, phases, count, response, drvars, messages, mcp_tools,
                   conversation, full_content, tool_calls, finish_reason,
                   received, tool_response, ti, varied>>

\* a step of the generator
Step ==
    \/ DR_Start
    \/ DR_GenerateQuery
    \/ DR_Results
    \/ DR_StartWebResearch
    \/ \E rk \in Rounds : WR_Enter(rk)
    \/ \E rk \in Rounds : WR_Search(rk)
    \/ \E rk \in Rounds : WR_Summarise(rk)
    \/ \E rk \in Rounds : DR_StartReflection(rk)
    \/ \E rk \in Rounds : DR_Reflection(rk)
    \/ \E rk \in Rounds : DR_LoopCheck(rk)
    \/ DR_Finalize
    \/ DR_FinalizeChunk
    \/ RC_Start
    \/ RC_GetTools
    \/ RC_ModelTurn
    \/ RC_Chunk
    \/ RC_EndOfStream
    \/ RC_ToolArgs
    \/ RC_CallTool
    \/ RC_Continue
    \/ AfterError
    \/ Return

Next == Step \/ Cancel

Spec == Init /\ [][Next]_vars

-----------------------------------------------------------------------------
(* The stream loop of a ModelTurn on arbitrary tool-call deltas *)

\* the k-th delta of a stream carries fragments that name its position
Tag(k) == ToString(k)

\* what a delta carries: an index or none, and which of its fields are set
DeltaShapes ==
    {f \in [indexed : BOOLEAN, index : 0..MaxIndex, id : BOOLEAN,
            name : BOOLEAN, arguments : BOOLEAN] : f.indexed \/ f.index = 0}

PositionDelta(f, k) ==
    LET id == IF f.id THEN Tag(k) ELSE NULL
        name == IF f.name THEN Tag(k) ELSE NULL
        arguments == IF f.arguments THEN Tag(k) ELSE NULL
    IN  IF f.indexed THEN Delta(f.index, id, name, arguments)
        ELSE Unindexed(id, name, arguments)

\* the deltas of a stream, from the shape chosen for each position
DeltaSeq(fs) == [k \in DOMAIN fs |-> PositionDelta(fs[k], k)]

\* the deltas arrive all in one chunk, or one per chunk
DeltaStream(fs, whole) ==
    IF whole THEN <<ToolChunk(DeltaSeq(fs))>>
    ELSE [k \in DOMAIN fs |-> ToolChunk(<<DeltaSeq(fs)[k]>>)]

\* research_chat at the head of "async for chunk in response" of its first
\* ModelTurn
InitDeltas ==
    /\ ctl = "research_chat"
    /\ pc = "streaming"
    /\ out = <<Notify("Fetching available tools..."), Thinking(1)>>
    /\ phases = <<"ModelTurn">>
    /\ count = [ZeroCount EXCEPT !.tools_list = 1, !.stream = 1]
    /\ query = <<>>
    /\ queries = <<>>
    /\ qi = 0
    /\ search_context = <<>>
    /\ search_summary = <<>>
    /\ reflection_result = NoReflection
    /\ loop = 0
    /\ provider = NoProvider
    /\ \E n \in 0..MaxDeltas : \E fs \in [1..n -> DeltaShapes] :
          \E whole \in BOOLEAN : response = DeltaStream(fs, whole)
    /\ e = NULL
    /\ messages = <<create_message("user", <<"topic">>)>>
    /\ mcp_tools = <<"google_search", "scrape">>
    /\ conversation = <<system_message>> \o messages
    /\ iteration = 1
    /\ full_content = <<>>
    /\ tool_calls = <<>>
    /\ finish_reason = NULL
    /\ received = <<>>
    /\ tool_response = NoResponse
    /\ ti = 0
    /\ varied = 0
    /\ peer = NoPeer
    /\ wire = NoWire
    /\ bridge = NoBridge

NextDeltas == RC_Chunk \/ RC_EndOfStream

ReassemblySpec == InitDeltas /\ [][NextDeltas]_vars

-----------------------------------------------------------------------------
(* Two runs in one process: a run of research_chat, and a second run of *)
(* research_chat or of deep_research that holds its own locals           *)

\* the second run begins: "conversation = [system_message] + messages",
\* or "search_context = """ of web_research
Peer_Start ==
    /\ peer.pc = "init"
    /\ peer' = [peer EXCEPT
                  !.pc = "running",
                  !.conversation = IF peer.ctl = "research_chat"
                                   THEN <<system_message>> \o peer.messages
                                   ELSE <<>>]
    /\ UNCHANGED <<bridge, wire, ctl, pc, out, e, phases, count, response, drvars, rcvars>>

\* as Peer_Step, the conversation held in one module-level list
Peer_Step_Shared ==
    /\ peer.pc = "running"
    /\ peer.steps < MaxPeerSteps
    /\ peer.ctl = "research_chat"
    /\ \E m \in {assistant_message(<<"x2">>, <<>>), tool_message(<<"found2">>, "p")} :
          conversation' = Append(conversation, m)
    /\ peer' = [peer EXCEPT !.steps = @ + 1]
    /\ UNCHANGED <<bridge, wire, ctl, pc, out, e, phases, count, response, drvars, messages,
                   mcp_tools, iteration, full_content, tool_calls, finish_reason,
                   received, tool_response, ti, varied>>

\* a step of the second run: research_chat appends the assistant message or
\* a tool message to its conversation; web_research appends the formatted
\* results of a query to its search context, deep_research takes the summary
Peer_Step ==
    /\ peer.pc = "running"
    /\ peer.steps < MaxPeerSteps
    /\ \/ /\ peer.ctl = "research_chat"
          /\ \E m \in {assistant_message(<<"x2">>, <<>>),
                        tool_message(<<"found2">>, "p")} :
                peer' = [peer EXCEPT !.conversation = Append(@, m),
                                     !.steps = @ + 1]
       \/ /\ peer.ctl = "deep_research"
          /\ \/ peer' = [peer EXCEPT
                           !.search_context =
                               @ \o <<format_search_results(search("q2", FoundResponse)), Newline>>,
                           !.steps = @ + 1]
             \/ peer' = [peer EXCEPT !.search_summary = <<"s2">>,
                                     !.steps = @ + 1]
    /\ UNCHANGED <<bridge, wire, ctl, pc, out, e, phases, count, response, drvars, rcvars>>

\* the second run ends
Peer_End ==
    /\ peer.pc = "running"
    /\ peer' = [peer EXCEPT !.pc = "end"]
    /\ UNCHANGED <<bridge, wire, ctl, pc, out, e, phases, count, response, drvars, rcvars>>

\* both generators exist and have not run; the first run draws from the
\* plain streams and tool results
InitTwoRuns ==
    /\ ctl = "research_chat"
    /\ pc = "init"
    /\ out = <<>>
    /\ phases = <<>>
    /\ count = ZeroCount
    /\ query = <<>>
    /\ queries = <<>>
    /\ qi = 0
    /\ search_context = <<>>
    /\ search_summary = <<>>
    /\ reflection_result = NoReflection
    /\ loop = 0
    /\ provider = NoProvider
    /\ response = <<>>
    /\ e = NULL
    /\ messages = <<create_message("user", <<"topic">>)>>
    /\ mcp_tools = <<>>
    /\ conversation = <<>>
    /\ iteration = 0
    /\ full_content = <<>>
    /\ tool_calls = <<>>
    /\ finish_reason = NULL
    /\ received = <<>>
    /\ tool_response = NoResponse
    /\ ti = 0
    /\ varied = MaxVaried
    /\ peer \in {Peer(c, "init", <<>>, <<>>, <<>>, 0) :
                   c \in {"research_chat", "deep_research"}}
    /\ wire = NoWire
    /\ bridge = NoBridge

NextTwoRuns ==
    \/ RC_Start
    \/ RC_GetTools
    \/ RC_ModelTurn
    \/ RC_Chunk
    \/ RC_EndOfStream
    \/ RC_ToolArgs
    \/ RC_CallTool
    \/ RC_Continue
    \/ AfterError
    \/ Return
    \/ Peer_Start
    \/ Peer_Step
    \/ Peer_End

TwoRunsSpec == InitTwoRuns /\ [][NextTwoRuns]_vars

-----------------------------------------------------------------------------
(* SSE framing: create_sse_message on the server, the decoding of the     *)
(* frames by a client. A string is a sequence of characters; the fixed    *)
(* parts of a frame are one token each.                                   *)

MaxFragments == 2

MaxChars == 3

\* the characters of a content fragment: a letter, the newline, the double
\* quote, the backslash
Chars == {"n", "\n", "\"", "\\"}

Contents == SeqsUpTo(Chars, MaxChars)

\* the stream response object made for a content
ChatCompletionStreamResponse(content) ==
    [choices |-> <<[index |-> 0, delta |-> [content |-> content]]>>,
     model |-> "test"]

\* as escape, the character written as it is
escape_Raw(c) == <<c>>

\* json.dumps of one character of a string
escape(c) ==
    IF c = "\n" THEN <<"\\", "n">>
    ELSE IF c \in {"\"", "\\"} THEN <<"\\", c>>
    ELSE <<c>>

RECURSIVE escape_all(_)
escape_all(str) ==
    IF str = <<>> THEN <<>> ELSE escape(Head(str)) \o escape_all(Tail(str))

JsonHead == "{\"choices\": [{\"index\": 0, \"delta\": {\"content\": "

JsonTail == "}}], \"model\": \"test\"}"

\* json.dumps of the dumped stream response
json_dumps(stream) ==
    <<JsonHead, "\"">> \o escape_all(stream.choices[1].delta.content)
        \o <<"\"", JsonTail>>

\* f"data: {json.dumps(stream)}\n\n"
sse_chunk(content) ==
    <<"data: ">> \o json_dumps(ChatCompletionStreamResponse(content))
        \o <<"\n", "\n">>

\* the position of the first blank line of the bytes, 0 when there is none
BlankLine(bytes) ==
    LET at == {k \in 1..(Len(bytes) - 1) : bytes[k] = "\n" /\ bytes[k + 1] = "\n"}
    IN  IF at = {} THEN 0 ELSE CHOOSE k \in at : \A j \in at : k <= j

\* json.loads on the characters after the opening quote of a string: the
\* string, and the text after its closing quote; a control character or
\* an unknown escape is an error
RECURSIVE loads_string(_, _)
loads_string(text, acc) ==
    IF text = <<>> THEN [ok |-> FALSE, content |-> acc, rest |-> <<>>]
    ELSE IF Head(text) = "\"" THEN [ok |-> TRUE, content |-> acc, rest |-> Tail(text)]
    ELSE IF Head(text) = "\n" THEN [ok |-> FALSE, content |-> acc, rest |-> text]
    ELSE IF Head(text) = "\\"
         THEN IF Len(text) < 2 THEN [ok |-> FALSE, content |-> acc, rest |-> text]
              ELSE IF text[2] = "n"
                   THEN loads_string(Tail(Tail(text)), Append(acc, "\n"))
              ELSE IF text[2] \in {"\"", "\\"}
                   THEN loads_string(Tail(Tail(text)), Append(acc, text[2]))
              ELSE [ok |-> FALSE, content |-> acc, rest |-> text]
    ELSE loads_string(Tail(text), Append(acc, Head(text)))

\* one frame decoded: strip "data: ", json.loads, choices[0].delta.content
decode_frame(frame) ==
    IF Len(frame) < 3 \/ frame[1] # "data: " \/ frame[2] # JsonHead \/ frame[3] # "\""
    THEN [ok |-> FALSE, content |-> <<>>]
    ELSE LET str == loads_string(SubSeq(frame, 4, Len(frame)), <<>>)
         IN  [ok |-> str.ok /\ str.rest = <<JsonTail>>, content |-> str.content]

\* the fragments joined
RECURSIVE Joined(_)
Joined(fragments) ==
    IF fragments = <<>> THEN <<>> ELSE Head(fragments) \o Joined(Tail(fragments))

\* the server encodes one more content fragment and sends the frame; a
\* stream has up to MaxFragments fragments of MaxChars characters in all
Frame_Send ==
    /\ Len(wire.fragments) < MaxFragments
    /\ \E content \in Contents :
          /\ Len(Joined(wire.fragments)) + Len(content) <= MaxChars
          /\ wire' = [wire EXCEPT
                        !.fragments = Append(@, content),
                        !.frames = Append(@, sse_chunk(content)),
                        !.bytes = @ \o sse_chunk(content),
                        !.clock = @ + 1]
    /\ UNCHANGED <<bridge, ctl, pc, out, e, phases, count, response, drvars, rcvars, peer>>

\* the client takes the bytes up to the first blank line and decodes them
Frame_Receive ==
    /\ wire.ok
    /\ BlankLine(wire.bytes) # 0
    /\ LET k == BlankLine(wire.bytes)
           got == decode_frame(SubSeq(wire.bytes, 1, k - 1))
       IN  wire' = [wire EXCEPT
                      !.bytes = SubSeq(@, k + 2, Len(@)),
                      !.decoded = IF got.ok THEN Append(@, got.content) ELSE @,
                      !.ok = got.ok]
    /\ UNCHANGED <<bridge, ctl, pc, out, e, phases, count, response, drvars, rcvars, peer>>

NextFraming == Frame_Send \/ Frame_Receive

\* a run of research_chat, of which only the frames on the wire are followed
InitFraming == Init /\ ctl = "research_chat"

FramingSpec == InitFraming /\ [][NextFraming]_vars

-----------------------------------------------------------------------------
(* The Tool Bridge: MCPServer.handle_request on the requests of its clients *)

MaxRequests == 2

Ids == {NULL, "1", "tool_call_search"}

Methods == {"initialize", "tools/list", "tools/call", "resources/list"}

\* params of a request: None, or a dict whose name is a tool of the bridge,
\* another name or absent, and whose arguments validate, do not, or are absent
ParamsSet ==
    {NoParams} \cup [present : {TRUE},
                     name : {"google_search", "scrape", "search", NULL},
                     arguments : {"valid", "invalid", "absent"}]

\* what the provider call of a request does: it returns, it answers with a
\* status other than 200 (HTTPException), or the client raises
Outcomes == {"ok", "HTTPException", "ClientError"}

\* as handle_request, without the "except Exception" clause
handle_request_Uncaught(configured, request, outcome) ==
    IF request.method = "initialize" THEN MCPResult(request.id, "initialize")
    ELSE IF request.method = "tools/list" THEN MCPResult(request.id, "tools")
    ELSE IF request.method = "tools/call"
    THEN IF ~configured
         THEN MCPError(request.id, -32000, "SERPER_API_KEY not configured")
         ELSE IF ~request.params.present
         THEN MCPRaised("AttributeError")
         ELSE IF request.params.name \in {"google_search", "scrape"}
         THEN IF request.params.arguments # "valid"
              THEN MCPRaised("ValidationError")
              ELSE IF outcome # "ok"
                   THEN MCPRaised(outcome)
                   ELSE MCPResult(request.id, "content")
         ELSE MCPError(request.id, -32601, "Unknown tool")
    ELSE MCPError(request.id, -32601, "Unknown method")

\* handle_request: the branches on method and tool name; an exception of
\* request.params.get, of the params model or of the provider call is
\* caught and answered with code -32000
handle_request(configured, request, outcome) ==
    IF request.method = "initialize" THEN MCPResult(request.id, "initialize")
    ELSE IF request.method = "tools/list" THEN MCPResult(request.id, "tools")
    ELSE IF request.method = "tools/call"
    THEN IF ~configured
         THEN MCPError(request.id, -32000, "SERPER_API_KEY not configured")
         ELSE IF ~request.params.present
         THEN MCPError(request.id, -32000, "AttributeError")
         ELSE IF request.params.name \in {"google_search", "scrape"}
         THEN IF request.params.arguments # "valid"
              THEN MCPError(request.id, -32000, "ValidationError")
              ELSE IF outcome # "ok"
                   THEN MCPError(request.id, -32000, outcome)
                   ELSE MCPResult(request.id, "content")
         ELSE MCPError(request.id, -32601, "Unknown tool")
    ELSE MCPError(request.id, -32601, "Unknown method")

\* handle_request has returned (or raised) for the request held
Answered == bridge.response # MCPRaised(NULL)

\* a request arrives at the route
Bridge_Request ==
    /\ bridge.served < MaxRequests
    /\ bridge.request = NoRequest \/ Answered
    /\ \E id \in Ids, method \in Methods, params \in ParamsSet, outcome \in Outcomes :
          bridge' = [bridge EXCEPT !.request = MCPRequest(id, method, params),
                                   !.outcome = outcome,
                                   !.response = MCPRaised(NULL)]
    /\ UNCHANGED <<ctl, pc, out, e, phases, count, response, drvars, rcvars, peer, wire>>

\* handle_mcp_request: the response of handle_request is returned
Bridge_Handle ==
    /\ bridge.request # NoRequest
    /\ ~Answered
    /\ bridge' = [bridge EXCEPT
                    !.response = handle_request(bridge.configured, bridge.request,
                                                bridge.outcome),
                    !.served = @ + 1]
    /\ UNCHANGED <<ctl, pc, out, e, phases, count, response, drvars, rcvars, peer, wire>>

\* the bridge of a process, with or without a provider key
InitBridge ==
    /\ ctl = "research_chat"
    /\ pc = "init"
    /\ out = <<>>
    /\ phases = <<>>
    /\ count = ZeroCount
    /\ query = <<>>
    /\ queries = <<>>
    /\ qi = 0
    /\ search_context = <<>>
    /\ search_summary = <<>>
    /\ reflection_result = NoReflection
    /\ loop = 0
    /\ provider = NoProvider
    /\ response = <<>>
    /\ e = NULL
    /\ messages = <<create_message("user", <<"topic">>)>>
    /\ mcp_tools = <<>>
    /\ conversation = <<>>
    /\ iteration = 0
    /\ full_content = <<>>
    /\ tool_calls = <<>>
    /\ finish_reason = NULL
    /\ received = <<>>
    /\ tool_response = NoResponse
    /\ ti = 0
    /\ varied = 0
    /\ peer = NoPeer
    /\ wire = NoWire
    /\ \E configured \in BOOLEAN :
          bridge = Bridge(configured, NoRequest, "ok", MCPRaised(NULL), 0)

NextBridge == Bridge_Request \/ Bridge_Handle

BridgeSpec == InitBridge /\ [][NextBridge]_vars

-----------------------------------------------------------------------------
(* Properties *)

Last(s) == s[Len(s)]

Occurrences(s, x) == Cardinality({i \in DOMAIN s : s[i] = x})

Has(s, x) == \E i \in DOMAIN s : s[i] = x

Terminated == pc \in {"end", "closed"}

\* the run reached the end of the generator (it was not closed)
Ended == pc = "end"

WebRounds == Occurrences(phases, "WebResearch")

ReflectRounds == Occurrences(phases, "Reflect")

ModelTurns == Occurrences(phases, "ModelTurn")

\* C1: every run of the fixed pipeline and of the tool-calling loop that is
\* not closed by its consumer, with or without an exception, yields exactly
\* one Done frame (the literal sentinel), as its last frame; no frame follows
\* a Done frame, and a run that has not ended can take a step.
C1_OneDoneLast ==
    /\ \A i \in DOMAIN out : IsDone(out[i]) => i = Len(out) /\ out[i] = DoneFrame
    /\ pc \in {"done", "end"} => out # <<>> /\ Last(out) = DoneFrame
    /\ (out # <<>> /\ IsDone(Last(out))) => pc \in {"done", "end", "closed"}
    /\ ~Terminated => ENABLED Step

C1_Witness ==
    /\ ctl = "research_chat"
    /\ Ended
    /\ e = "JSONDecodeError"
    /\ Len(out) > 3

\* the frames and the position of a run whose exception was caught
C2_ErrorFrames ==
    Fixed =>
        /\ Cardinality({i \in DOMAIN out : IsError(out[i])}) = IF e = NULL THEN 0 ELSE 1
        /\ \A i \in DOMAIN out :
              IsError(out[i]) =>
                 /\ out[i].content.text = e
                 /\ i >= Len(out) - 1
                 /\ i = Len(out) - 1 => Last(out) = DoneFrame
        /\ (e # NULL /\ pc \in {"done", "end"}) => IsError(out[Len(out) - 1])
        /\ pc = "error" => e # NULL /\ IsError(Last(out))
        /\ e # NULL => pc \in {"error", "done", "end", "closed"}

C2_AfterException ==
    (Fixed /\ e # NULL) =>
        /\ count' = count
        /\ phases' = phases
        /\ qi' = qi
        /\ e' = e
        /\ out' = out \/ out' = Append(out, DoneFrame)

\* C2: in the fixed pipeline an exception of any phase yields exactly one
\* Error frame carrying the exception's message, the only frame after it is
\* Done, and after the exception no completion is requested, no search is
\* made and no Notify is yielded.
C2_ErrorAbsorbing == []C2_ErrorFrames /\ [][C2_AfterException]_vars

C2_Witness ==
    /\ Fixed
    /\ Ended
    /\ e = "HTTPError"
    /\ WebRounds = 2

\* C3: deep_research makes at most max_search_loop + 1 WebResearch/Reflect
\* rounds whatever the reflections report; loop starts at 0, is the number
\* of follow-up rounds completed, never exceeds max_search_loop, and a run
\* that has not ended can take a step.
C3_LoopBounded ==
    Archive =>
        /\ WebRounds <= max_search_loop + 1
        /\ ReflectRounds <= max_search_loop + 1
        /\ loop \in 0..max_search_loop
        /\ WebRounds = 0 => loop = 0
        /\ WebRounds > 0 => loop \in {WebRounds - 2, WebRounds - 1}
        /\ pc \in {"reflected_first", "web_research", "search_first", "reflection_first",
                   "web_done"} => loop = 0
        /\ pc \in {"more_info", "finalize", "stream"} => loop = ReflectRounds - 1
        /\ ~Terminated => ENABLED Step

C3_Witness ==
    /\ Archive
    /\ Ended
    /\ e = NULL
    /\ loop = max_search_loop
    /\ WebRounds = max_search_loop + 1

\* C4: when the reflections of a run never report sufficient and nothing
\* raises, the fixed pipeline enters Finalize after exactly
\* max_search_loop + 1 WebResearch rounds and as many Reflect rounds; a
\* further round is started only while fewer have been made.
C4_ExactRounds ==
    Fixed =>
        /\ (/\ pc = "finalize" \/ Has(phases, "Finalize")
            /\ ~Truthy(reflection_result.is_sufficient))
              => /\ WebRounds = max_search_loop + 1
                 /\ ReflectRounds = max_search_loop + 1
        /\ pc = "more_info" => WebRounds <= max_search_loop
        /\ WebRounds <= max_search_loop + 1

C4_Witness ==
    /\ Fixed
    /\ Ended
    /\ e = NULL
    /\ Has(phases, "Finalize")
    /\ reflection_result.is_sufficient = "false"
    /\ WebRounds = max_search_loop + 1


\* the step taken from the loop condition after a Reflect
C5_AfterReflect ==
    (/\ Archive
     /\ pc \in {"reflected_first", "reflected_loop"}
     /\ pc' \notin {pc, "closed"}
     /\ "is_sufficient" \in reflection_result.keys)
       => IF reflection_result.is_sufficient \in {"true", "str"}
             \/ loop' >= max_search_loop
          THEN pc' = "finalize" /\ out' = out
          ELSE pc' = "more_info" /\ Len(out') = Len(out) + 1

C5_FirstSufficient ==
    (/\ Archive
     /\ ReflectRounds = 1
     /\ "is_sufficient" \in reflection_result.keys
     /\ reflection_result.is_sufficient \in {"true", "str"})
       => /\ WebRounds = 1
          /\ pc \in {"reflected_first", "finalize", "stream", "error", "done", "end",
                     "closed"}
          /\ loop = 0
          /\ (Ended /\ e = NULL) => Last(phases) = "Finalize" /\ Last(out) = DoneFrame

\* C5: after each Reflect deep_research starts another round exactly when
\* is_sufficient of the latest reflection is falsy and loop is below
\* max_search_loop, and goes to Finalize otherwise; when the first
\* reflection reports sufficient there is no follow-up round and the run
\* goes to Finalize and then Done.
C5_LoopCondition == []C5_FirstSufficient /\ [][C5_AfterReflect]_vars

C5_Witness ==
    /\ Archive
    /\ Ended
    /\ e = NULL
    /\ ReflectRounds = 1
    /\ reflection_result.is_sufficient = "true"
    /\ Last(phases) = "Finalize"
    /\ \E i \in DOMAIN out : IsContent(out[i])

\* C6: the phases of a run of the fixed pipeline are a prefix of QueryGen,
\* WebResearch, Reflect, (WebResearch, Reflect)*, Finalize: QueryGen is first
\* and occurs once, each WebResearch is followed by a Reflect before any
\* other phase, Finalize occurs at most once, last, after a Reflect that
\* returned; a run that ends without an exception ends after Finalize.
C6_PhaseOrder ==
    Fixed =>
        /\ \A i \in DOMAIN phases :
              /\ phases[i] = "QueryGen" <=> i = 1
              /\ phases[i] = "WebResearch" =>
                    /\ phases[i - 1] \in {"QueryGen", "Reflect"}
                    /\ i < Len(phases) => phases[i + 1] = "Reflect"
              /\ phases[i] = "Reflect" => phases[i - 1] = "WebResearch"
              /\ phases[i] = "Finalize" =>
                    /\ i = Len(phases)
                    /\ phases[i - 1] = "Reflect"
                    /\ "is_sufficient" \in reflection_result.keys
              /\ phases[i] \in {"QueryGen", "WebResearch", "Reflect", "Finalize"}
        /\ Occurrences(phases, "Finalize") <= 1
        /\ (pc \in {"done", "end"} /\ e = NULL) => Last(phases) = "Finalize"

C6_Witness ==
    /\ Fixed
    /\ Ended
    /\ e = NULL
    /\ phases = <<"QueryGen", "WebResearch", "Reflect", "WebResearch", "Reflect",
                  "Finalize">>

\* the Notify texts of the phases QueryGen, WebResearch and Reflect
PhaseNotifies(phase) ==
    CASE phase = "QueryGen" ->
            {"Starting query generation...", "Finished query generation"}
      [] phase = "WebResearch" ->
            {"Starting web research...", "Finished web research",
             "Finding more information..."}
      [] phase = "Reflect" ->
            {"Starting reflection...", "Finished reflection", "Finished reflection..."}

HasNotify(phase) ==
    \E i \in DOMAIN out : IsNotify(out[i]) /\ out[i].content.text \in PhaseNotifies(phase)

OneDoneAtEnd ==
    /\ Cardinality({i \in DOMAIN out : IsDone(out[i])}) = 1
    /\ Last(out) = DoneFrame

\* C7 as stated: every run of deep_research that reaches its end, failed or
\* not, has yielded a Notify for each of QueryGen, WebResearch and Reflect
\* and exactly one Done, at the end.
C7_Original ==
    (Archive /\ Ended) =>
        /\ \A phase \in {"QueryGen", "WebResearch", "Reflect"} : HasNotify(phase)
        /\ OneDoneAtEnd

\* C7 amended: every run of deep_research that reaches its end, failed or
\* not, has yielded a Notify of QueryGen and exactly one Done, at the end;
\* it has yielded a Notify of each phase it entered, so of all three phases
\* when no exception was raised before Reflect was entered.
C7_NotifyPerPhaseEntered ==
    Archive =>
        /\ \A phase \in {"QueryGen", "WebResearch", "Reflect"} :
              Has(phases, phase) => HasNotify(phase)
        /\ Ended =>
              /\ HasNotify("QueryGen")
              /\ OneDoneAtEnd
              /\ (e = NULL \/ Has(phases, "Reflect")) =>
                    \A phase \in {"QueryGen", "WebResearch", "Reflect"} : HasNotify(phase)

C7_Witness ==
    /\ Archive
    /\ Ended
    /\ e = "ParseError"
    /\ phases = <<"QueryGen", "WebResearch", "Reflect">>
    /\ \A phase \in {"QueryGen", "WebResearch", "Reflect"} : HasNotify(phase)

\* C8: research_chat makes at most max_iterations (10) ModelTurns whatever
\* the model streams, a model that requests tools on every turn included;
\* each ModelTurn is one streaming completion, a run that has not ended can
\* take a step, and a run that ends has Done as its last frame.
C8_ChatBounded ==
    Chat =>
        /\ ModelTurns <= max_iterations
        /\ count.stream = ModelTurns
        /\ iteration \in 0..max_iterations
        /\ ModelTurns \in {iteration - 1, iteration}
        /\ pc = "model_turn" => ModelTurns = iteration - 1
        /\ Ended => Last(out) = DoneFrame
        /\ ~Terminated => ENABLED Step

C8_Witness ==
    /\ Chat
    /\ Ended
    /\ e = NULL
    /\ ModelTurns = max_iterations
    /\ count.tool_call >= max_iterations

\* C9 as stated: a run of research_chat that ends without an exception never
\* ends after a ToolExecution: the model is re-invoked every time the tool
\* calls of a turn were executed.
C9_Original ==
    (Chat /\ pc \in {"done", "end"} /\ e = NULL /\ phases # <<>>)
        => Last(phases) # "ToolExecution"

\* the conversation ends with the assistant message of the latest turn and
\* one tool message per tool call of it, in order
EndsWithToolResults ==
    \E base \in DOMAIN conversation :
        LET calls == conversation[base].tool_calls
        IN  /\ conversation[base].role = "assistant"
            /\ calls # <<>>
            /\ Len(conversation) = base + Len(calls)
            /\ \A k \in DOMAIN calls :
                  /\ conversation[base + k].role = "tool"
                  /\ conversation[base + k].tool_call_id = calls[k].id

C9_AfterTools ==
    (Chat /\ pc = "completed" /\ ti = Len(tool_calls) /\ pc' \notin {pc, "closed"})
        => IF iteration < max_iterations
           THEN /\ pc' = "model_turn"
                /\ iteration' = iteration + 1
                /\ conversation' = conversation
           ELSE /\ pc' = "done"
                /\ out' = Append(out, DoneFrame)

C9_Reinvoked ==
    Chat =>
        /\ (pc \in {"model_turn", "streaming"} /\ iteration > 1) => EndsWithToolResults
        /\ (Ended /\ phases # <<>> /\ Last(phases) = "ToolExecution")
              => \/ /\ e = NULL
                    /\ iteration = max_iterations
                    /\ ModelTurns = max_iterations
                    /\ ti = Len(tool_calls)
                 \/ /\ e = "JSONDecodeError"
                    /\ ti < Len(tool_calls)
                    /\ ~ValidJson(tool_calls[ti + 1].function.arguments)

\* C9 amended: every time the tool calls of a ModelTurn were all executed
\* and fewer than max_iterations (10) ModelTurns were made, research_chat
\* re-invokes the model in a new ModelTurn whose conversation ends with the
\* tool results; a ToolExecution is the last step of a run only when it was
\* the ToolExecution of the 10th ModelTurn, or when the arguments of a later
\* tool call of the same turn are no JSON and the run ends with Error, Done.
C9_ReinvokedBelowCap == []C9_Reinvoked /\ [][C9_AfterTools]_vars

C9_Witness ==
    /\ Chat
    /\ pc = "streaming"
    /\ iteration = 2
    /\ EndsWithToolResults
    /\ Len(conversation) = 5

\* the step taken at the end of a stream that left no complete tool call
C10_BreakStep ==
    (/\ Chat /\ pc = "streaming" /\ response = <<>>
     /\ \A i \in DOMAIN tool_calls : ~IsComplete(tool_calls[i])
     /\ pc' \notin {pc, "closed"})
        => /\ pc' = "done"
           /\ out' = Append(out, DoneFrame)
           /\ count' = count
           /\ phases' = phases
           /\ conversation' =
                Append(conversation,
                       [role |-> "assistant", content |-> full_content,
                        tool_calls |-> <<>>, tool_call_id |-> NULL])

FinalAssistant ==
    /\ conversation # <<>>
    /\ Last(conversation).role = "assistant"
    /\ Last(conversation).tool_calls = <<>>

C10_AfterBreak ==
    (Chat /\ FinalAssistant) =>
        /\ pc \in {"done", "end", "closed"}
        /\ Last(out) = DoneFrame
        /\ e = NULL

C10_Frozen ==
    (Chat /\ FinalAssistant) =>
        /\ out' = out
        /\ count' = count
        /\ conversation' = conversation

\* C10: when no accumulated tool call of a ModelTurn is complete (none
\* arrived, or none has both an id and a name), the assistant message
\* carries no tool calls and the run ends with that turn: the next frame is
\* Done, no tool is called and no further completion is requested.
C10_NoToolCallsEndsRun ==
    []C10_AfterBreak /\ [][C10_BreakStep]_vars /\ [][C10_Frozen]_vars

C10_Witness ==
    /\ Chat
    /\ Ended
    /\ FinalAssistant
    /\ tool_calls # <<>>
    /\ count.tool_call = 0

\* the loop of research_chat ran out of iterations: the tool calls of the
\* max_iterations-th ModelTurn were all executed and the while condition
\* was found false
CapReached ==
    /\ Chat
    /\ pc \in {"done", "end"}
    /\ iteration = max_iterations
    /\ phases # <<>>
    /\ Last(phases) = "ToolExecution"
    /\ ti = Len(tool_calls)

\* C11: a run of research_chat that reaches the iteration cap without a
\* turn free of tool calls yields no Error frame, for the cap or otherwise,
\* raises nothing, and its last frame is Done, right after the Completed
\* Notify of the last tool call.
C11_CapSilent ==
    CapReached =>
        /\ e = NULL
        /\ \A i \in DOMAIN out : ~IsError(out[i])
        /\ Last(out) = DoneFrame
        /\ IsNotify(out[Len(out) - 1])
        /\ out[Len(out) - 1].content.text = "Completed ..."
        /\ ModelTurns = max_iterations

C11_Witness ==
    /\ CapReached
    /\ Ended
    /\ count.tool_call > max_iterations

\* the deltas of ds that carry index i, in arrival order
Carrying(ds, i) == SelectSeq(ds, LAMBDA d : d.indexed /\ d.index = i)

NameFragments(ds) ==
    LET sel == SelectSeq(ds, LAMBDA d : d.name # NULL)
    IN  [k \in 1..Len(sel) |-> sel[k].name]

ArgumentFragments(ds) ==
    LET sel == SelectSeq(ds, LAMBDA d : d.arguments # NULL)
    IN  [k \in 1..Len(sel) |-> sel[k].arguments]

DeliveredId(ds) ==
    LET sel == SelectSeq(ds, LAMBDA d : d.id # NULL)
    IN  IF sel = <<>> THEN NULL ELSE sel[Len(sel)].id

\* the tool calls that the deltas ds describe
Reassembled(ds) ==
    LET indices == {ds[k].index : k \in {j \in DOMAIN ds : ds[j].indexed}}
        n == IF indices = {} THEN 0
             ELSE 1 + CHOOSE m \in indices : \A i \in indices : i <= m
    IN  [p \in 1..n |->
            [id |-> DeliveredId(Carrying(ds, p - 1)),
             type |-> "function",
             function |-> [name |-> NameFragments(Carrying(ds, p - 1)),
                           arguments |-> ArgumentFragments(Carrying(ds, p - 1))]]]

\* C12: while the stream of a ModelTurn is consumed, the tool call
\* accumulated at index i has as name the name fragments of the deltas
\* carrying index i concatenated in arrival order, as arguments their
\* arguments fragments concatenated in arrival order, and as id the id
\* delivered for index i (the latest one); deltas of other indices and
\* deltas without an index contribute nothing to it. The deltas
\* (0, "a", "sea"), (0, "rch"), (0, "{}") give one call "a", "sea" "rch", "{}".
C12_Reassembly ==
    /\ (Chat /\ pc = "streaming") => tool_calls = Reassembled(received)
    /\ ApplyDeltas(<<>>, <<Delta(0, "a", "sea", NULL), Delta(0, NULL, "rch", NULL),
                           Delta(0, NULL, NULL, "{}")>>)
          = <<[id |-> "a", type |-> "function",
               function |-> [name |-> <<"sea", "rch">>, arguments |-> <<"{}">>]]>>

C12_Witness ==
    /\ Chat
    /\ pc = "streaming"
    /\ response = <<>>
    /\ Len(received) = 2
    /\ received[1].indexed /\ received[1].index = 1 /\ received[1].name # NULL
    /\ received[2].indexed /\ received[2].index = 0 /\ received[2].name # NULL
    /\ Len(tool_calls) = 2
    /\ tool_calls[1].function.name = <<received[2].name>>
    /\ tool_calls[2].function.name = <<received[1].name>>

\* the tools/call request failed: an exception of the client, a status
\* other than 200, or a JSON-RPC error in the body
Failed(r) ==
    /\ r # NoResponse
    /\ \/ r.raises
       \/ r.status # 200
       \/ "error" \in r.keys /\ r.message # NULL

\* the step of a failed tool call
C13_FailedCall ==
    (Chat /\ pc = "calling" /\ out' # out /\ Failed(tool_response')) =>
        /\ pc' = "completed"
        /\ e' = NULL
        /\ out' = Append(out, ToolNotify("Completed ...",
                                         tool_calls[ti + 1].function.name))
        /\ Len(conversation') = Len(conversation) + 1
        /\ SubSeq(conversation', 1, Len(conversation)) = conversation
        /\ Last(conversation').role = "tool"
        /\ Last(conversation').tool_call_id = tool_calls[ti + 1].id
        /\ ti' = ti + 1

\* the step after a failed tool call: the next tool call of the turn, or
\* the loop head
C13_Proceeds ==
    (Chat /\ pc = "completed" /\ out' # out /\ Failed(tool_response)) =>
        IF ti < Len(tool_calls)
        THEN IF ValidJson(tool_calls[ti + 1].function.arguments)
             THEN pc' = "calling" /\ e' = NULL
             ELSE e' = "JSONDecodeError"
        ELSE /\ e' = NULL
             /\ IF iteration < max_iterations
                THEN pc' = "model_turn" /\ iteration' = iteration + 1
                ELSE pc' = "done"

C13_AfterFailure ==
    (Chat /\ pc = "completed" /\ Failed(tool_response)) =>
        /\ e = NULL
        /\ \A i \in DOMAIN out : ~IsError(out[i])
        /\ Last(conversation).role = "tool"
        /\ Last(conversation).tool_call_id = tool_calls[ti].id
        /\ ENABLED (RC_ToolArgs \/ RC_Continue)

\* C13: a failed tool call (a JSON-RPC error response, a status other than
\* 200, an exception of the HTTP client) raises nothing and yields no Error
\* frame: a tool message with the call's tool_call_id is appended to the
\* conversation, the Completed Notify is yielded, and the loop goes on as
\* after a successful call, to the next tool call of the turn or to the
\* loop head and the next ModelTurn.
C13_ToolErrorNotFatal ==
    []C13_AfterFailure /\ [][C13_FailedCall]_vars /\ [][C13_Proceeds]_vars

C13_Witness ==
    /\ Chat
    /\ pc = "streaming"
    /\ iteration = 2
    /\ tool_response = RpcErrorResponse
    /\ Last(conversation).role = "tool"
    /\ e = NULL

\* the step taken when the loop condition reads a reflection result that
\* has no is_sufficient key
C14_Rejected ==
    (/\ Fixed /\ pc \in {"reflected_first", "reflected_loop"}
     /\ "is_sufficient" \notin reflection_result.keys
     /\ pc' \notin {pc, "closed"})
        => /\ pc' = "error"
           /\ e' = "KeyError"
           /\ out' = Append(out, ErrorFrame("KeyError"))
           /\ phases' = phases
           /\ count' = count

C14_AfterRejection ==
    (/\ Fixed /\ e = "KeyError"
     /\ "is_sufficient" \notin reflection_result.keys
     /\ phases # <<>> /\ Last(phases) = "Reflect")
        => /\ pc \in {"error", "done", "end", "closed"}
           /\ ~Has(phases, "Finalize")
           /\ WebRounds = ReflectRounds
           /\ Cardinality({i \in DOMAIN out : IsError(out[i])}) = 1
           /\ \A i \in DOMAIN out : ~IsContent(out[i])
           /\ pc \in {"done", "end"}
                => /\ out[Len(out) - 1] = ErrorFrame("KeyError")
                   /\ Last(out) = DoneFrame

\* C14: a reflection result without the is_sufficient key is not read as
\* insufficient: the loop condition raises on it, the run starts no
\* further WebResearch round and no Finalize, and it ends with one Error
\* frame followed by Done.
C14_MissingIsSufficient == []C14_AfterRejection /\ [][C14_Rejected]_vars

C14_Witness ==
    /\ Archive
    /\ Ended
    /\ e = "KeyError"
    /\ reflection_result.keys = {"follow_up_queries"}
    /\ reflection_result.follow_up_queries # <<>>
    /\ ReflectRounds = 2
    /\ Last(phases) = "Reflect"

\* the state of a run in which the parsing of a model output failed
C15_AfterParseFailure ==
    (Fixed /\ e = "ParseError") =>
        /\ pc \in {"error", "done", "end", "closed"}
        /\ Cardinality({i \in DOMAIN out : IsError(out[i])}) = 1
        /\ \A i \in DOMAIN out : ~IsContent(out[i])
        /\ Last(phases) \in {"QueryGen", "Reflect"}
        /\ Occurrences(phases, "QueryGen") = 1
        /\ ~Has(phases, "Finalize")
        /\ count.stream = 0
        /\ Last(phases) = "QueryGen"
             => /\ phases = <<"QueryGen">>
                /\ count.llm = 1
                /\ qi = 0 /\ search_context = <<>> /\ search_summary = <<>>
        /\ Last(phases) = "Reflect"
             => /\ WebRounds = ReflectRounds
                /\ count.llm = 1 + WebRounds + ReflectRounds
        /\ pc \in {"done", "end"}
             => /\ out[Len(out) - 1] = ErrorFrame("ParseError")
                /\ Last(out) = DoneFrame

\* after the failure nothing is requested again
C15_NoRetry ==
    (Fixed /\ e = "ParseError") =>
        /\ count' = count
        /\ phases' = phases
        /\ qi' = qi
        /\ search_context' = search_context
        /\ reflection_result' = reflection_result
        /\ query' = query

\* C15: a parse failure raised in generate_query or in reflection is not
\* recovered where it is raised and the completion is not requested again:
\* after a failure in QueryGen no search and no further completion is made,
\* after a failure in Reflect no further WebResearch, Reflect or Finalize
\* is made, and the run ends with one Error frame and Done.
C15_ParseFailurePropagates == []C15_AfterParseFailure /\ [][C15_NoRetry]_vars

C15_Witness ==
    /\ Stream
    /\ Ended
    /\ e = "ParseError"
    /\ Last(phases) = "Reflect"
    /\ ReflectRounds = 2

\* the blocks the results of a search for q can be formatted to
Blocks(q) == {format_search_results([raises |-> NULL, q |-> q, organic |-> o]) :
                o \in BOOLEAN}

\* the search context holds the formatted results of the first qi queries,
\* each followed by a newline, in the order of the queries
C16_ContextInOrder ==
    Fixed =>
        /\ qi <= Len(queries)
        /\ Len(search_context) = 2 * qi
        /\ \A k \in 1..qi :
              /\ search_context[2 * k - 1] \in Blocks(queries[k])
              /\ search_context[2 * k] = Newline

\* a step of a round searches the next query only, and the summary is
\* requested once every query was searched
C16_OneAtATime ==
    (Fixed /\ pc \in {"search_first", "search_loop"}) =>
        /\ qi' # qi
             => /\ qi' = qi + 1
                /\ queries' = queries
                /\ count' = count
                /\ \E b \in Blocks(queries[qi + 1]) :
                      search_context' = search_context \o <<b, Newline>>
        /\ count' # count
             => /\ qi = Len(queries)
                /\ count' = Inc("llm")
                /\ search_context' = search_context
                /\ qi' = qi

\* C16: in one WebResearch round the queries are searched one after the
\* other in the order given, the search context is the formatted results
\* in query order (for a, b: the results of a, then those of b), and the
\* summarising completion is requested only after the last search returned.
C16_SearchOrdering == []C16_ContextInOrder /\ [][C16_OneAtATime]_vars

C16_Witness ==
    /\ Archive
    /\ pc = "reflection_loop"
    /\ queries = <<"d", "c">>
    /\ qi = 2
    /\ search_context = <<format_search_results(search("d", FoundResponse)), Newline,
                          format_search_results(search("c", FoundResponse)), Newline>>

\* one chunk of the Finalize stream is consumed
C17_ChunkStep ==
    (/\ Fixed /\ pc = "stream" /\ response # <<>> /\ ~Head(response).fail
     /\ pc' # "closed" /\ response' # response)
        => /\ response' = Tail(response)
           /\ pc' = "stream"
           /\ count' = count
           /\ out' = IF Head(response).content # NULL
                     THEN Append(out, ContentFrame(Head(response).content))
                     ELSE out

\* Content frames are yielded during Finalize only, and in one block
C17_ContentBlock ==
    Fixed =>
        \A i \in DOMAIN out :
            IsContent(out[i]) =>
                /\ Has(phases, "Finalize")
                /\ pc \in {"stream", "error", "done", "end", "closed"}
                /\ \A j \in DOMAIN out :
                      j > i => IsContent(out[j]) \/ IsError(out[j]) \/ IsDone(out[j])

\* C17: during Finalize every chunk whose content is not null is yielded
\* as its own Content frame, carrying that content, in the step that
\* consumes the chunk and before the next chunk is consumed; a chunk with
\* null content yields nothing; so the Content frames are the non-null
\* contents of the stream, one to one and in order.
C17_FinalizeContent == []C17_ContentBlock /\ [][C17_ChunkStep]_vars

C17_Witness ==
    /\ Fixed
    /\ pc = "stream"
    /\ response = <<>>
    /\ Len(out) > 2
    /\ out[Len(out) - 1] = ContentFrame("y")
    /\ Last(out) = ContentFrame("x")

\* the open stream raised while it was consumed
StreamFailed == response # <<>> /\ Head(response).fail /\ e # NULL

\* the step in which the stream raises
C18_FailStep ==
    (/\ pc \in {"stream", "streaming"} /\ response # <<>> /\ Head(response).fail
     /\ vars' # vars /\ pc' # "closed")
        => /\ pc' = "error"
           /\ e' = "APIError"
           /\ out' = Append(out, ErrorFrame("APIError"))
           /\ count' = count
           /\ phases' = phases
           /\ response' = response

C18_Frozen ==
    StreamFailed =>
        /\ count' = count
        /\ phases' = phases
        /\ response' = response
        /\ full_content' = full_content
        /\ out' = out \/ out' = Append(out, DoneFrame)

\* the frames of research_chat since the Thinking Notify of the failed turn
\* are the fragments streamed in that turn, each once and in order
C18_AfterFailure ==
    StreamFailed =>
        /\ e = "APIError"
        /\ pc \in {"error", "done", "end", "closed"}
        /\ Cardinality({i \in DOMAIN out : IsError(out[i])}) = 1
        /\ pc \in {"done", "end"}
             => /\ out[Len(out) - 1] = ErrorFrame("APIError")
                /\ Last(out) = DoneFrame
        /\ Chat =>
             LET k == Len(full_content)
                 n == CHOOSE i \in DOMAIN out : IsError(out[i])
             IN  /\ n - k - 1 \in DOMAIN out
                 /\ out[n - k - 1] = Thinking(iteration)
                 /\ \A j \in 1..k :
                       out[n - k - 1 + j] = create_sse_message(Msg("", full_content[j]))

\* C18: a streaming completion that raises after k fragments were yielded
\* is not requested again and not resumed: the step in which it raises
\* leaves the frames yielded so far as they are and adds one Error frame,
\* the only frame after it is Done, and no request is made afterwards; the
\* caller sees the k Content frames, Error, Done.
C18_FailedStreamNotRetried ==
    []C18_AfterFailure /\ [][C18_FailStep]_vars /\ [][C18_Frozen]_vars

C18_Witness ==
    /\ Fixed
    /\ Ended
    /\ StreamFailed
    /\ Len(out) > 4
    /\ out[Len(out) - 3] = ContentFrame("x")
    /\ out[Len(out) - 2] = ContentFrame("y")
    /\ IsError(out[Len(out) - 1])

\* what the run has requested and consumed so far
Activity ==
    <<count, phases, out, response, qi, search_context, search_summary,
      reflection_result, conversation, full_content, tool_calls, received,
      tool_response, iteration, loop, ti>>

\* the step that closes the generator requests and consumes nothing, and no
\* step follows it
C19_CancelStep ==
    /\ (pc # "closed" /\ pc' = "closed") => Activity' = Activity
    /\ pc = "closed" => vars' = vars

\* a run that has not ended can be closed wherever it stands, and a closed
\* run can take no step
C19_Closed ==
    /\ pc \notin {"end", "closed"} => ENABLED Cancel
    /\ pc = "closed" => ~ENABLED Next

FirstRun == <<ctl, pc, out, e, phases, count, response, drvars, rcvars>>

\* the tokens of the contents of a conversation
ContentTokens(conv) ==
    UNION {{conv[i].content[k] : k \in DOMAIN conv[i].content} : i \in DOMAIN conv}

\* what the second run received: its input and the responses made to it
PeerData == {"topic2", "x2", "found2", "s2"}

\* what the first run received
FirstData == {"topic", "x", "y", "found", "sea", "rch", "search", "scrape"}

\* a step changes the state of one run only
C20_OneRunPerStep ==
    /\ peer' # peer => FirstRun' = FirstRun
    /\ FirstRun' # FirstRun => peer' = peer

\* each run holds what it received itself
C20_OwnData ==
    /\ ContentTokens(conversation) \cap PeerData = {}
    /\ ContentTokens(peer.conversation) \cap FirstData = {}
    /\ conversation # <<>> => conversation[2] = messages[1]
    /\ peer.conversation # <<>> => peer.conversation[2] = peer.messages[1]
    /\ \A k \in DOMAIN peer.search_context :
          peer.search_context[k] \in {format_search_results(search("q2", FoundResponse)), Newline}
    /\ peer.search_summary \in {<<>>, <<"s2">>}
    /\ search_context = <<>> /\ search_summary = <<>>

NonSuccess ==
    /\ Fixed
    /\ provider # NoProvider
    /\ ~(200 <= provider.status /\ provider.status < 300)

\* C21: in the fixed pipeline a search answered with a status outside 2xx
\* is a failure and never an empty result: the round is aborted with the
\* search context as it was, no completion is requested on it, and the run
\* ends with Error then Done.
C21_NonSuccessAborts ==
    NonSuccess =>
        /\ e = "HTTPError"
        /\ pc \in {"error", "done", "end", "closed"}
        /\ qi < Len(queries)
        /\ Len(search_context) = 2 * qi
        /\ IsError(Last(SelectSeq(out, LAMBDA f : ~IsDone(f))))
        /\ Ended => Last(out) = DoneFrame

\* the same content encoded at two moments of a stream gives the same frame
C22_Deterministic ==
    \A i, j \in DOMAIN wire.fragments :
        wire.fragments[i] = wire.fragments[j] => wire.frames[i] = wire.frames[j]

\* the client decoded every frame it consumed, and what it decoded are the
\* first fragments sent, in their order; with no bytes left these are all
C22_Lossless ==
    /\ wire.ok
    /\ Len(wire.decoded) <= Len(wire.fragments)
    /\ wire.decoded = SubSeq(wire.fragments, 1, Len(wire.decoded))
    /\ wire.bytes = <<>> => wire.decoded = wire.fragments
    /\ wire.bytes = Joined(SubSeq(wire.frames, Len(wire.decoded) + 1,
                                  Len(wire.frames)))

CompleteAt(tcs) ==
    {i \in DOMAIN tcs : tcs[i].id # NULL /\ tcs[i].function.name # <<>>}

\* the k-th of these positions
NthComplete(tcs, k) ==
    CHOOSE i \in CompleteAt(tcs) : Cardinality({j \in CompleteAt(tcs) : j <= i}) = k

\* every tool call carried by an assistant message has an id and a name,
\* and so has every call announced, executed or answered
C23_OnlyComplete ==
    Chat =>
        /\ \A i \in DOMAIN conversation :
              /\ \A k \in DOMAIN conversation[i].tool_calls :
                    /\ conversation[i].tool_calls[k].id # NULL
                    /\ conversation[i].tool_calls[k].function.name # <<>>
              /\ conversation[i].role = "tool" => conversation[i].tool_call_id # NULL
        /\ pc \in {"executing", "calling", "completed"} =>
              \A k \in DOMAIN tool_calls :
                  tool_calls[k].id # NULL /\ tool_calls[k].function.name # <<>>

\* the assistant message appended when the stream is drained carries the
\* accumulated calls that have an id and a name, in their positional order
C23_AppendsCompleteSubset ==
    (Chat /\ pc = "streaming" /\ conversation' # conversation) =>
        LET am == conversation'[Len(conversation')]
        IN  /\ conversation' = Append(conversation, am)
            /\ am.role = "assistant"
            /\ Len(am.tool_calls) = Cardinality(CompleteAt(tool_calls))
            /\ \A k \in DOMAIN am.tool_calls :
                  am.tool_calls[k] = tool_calls[NthComplete(tool_calls, k)]

\* a tool is called for a call that has an id and a name
C23_CallsComplete ==
    (Chat /\ count'.tool_call # count.tool_call) =>
        /\ ti < Len(tool_calls)
        /\ tool_calls[ti + 1].id # NULL
        /\ tool_calls[ti + 1].function.name # <<>>

\* C23: every assistant message research_chat appends carries in tool_calls
\* exactly the accumulated calls with a non-empty id and a non-empty name,
\* in positional order, and no tool is called for a call without an id or
\* a name.
C23_CompleteCallsOnly ==
    []C23_OnlyComplete /\ [][C23_AppendsCompleteSubset /\ C23_CallsComplete]_vars

C23_Witness ==
    /\ Chat
    /\ pc = "completed"
    /\ Len(received) = 1
    /\ received[1].index = 1
    /\ Len(Last(conversation).content) > 0
    /\ conversation[Len(conversation) - 1].tool_calls
         = <<[id |-> "b", type |-> "function",
              function |-> [name |-> <<"scrape">>, arguments |-> <<"{}">>]]>>

\* the messages the controller appended come after the system message and
\* the input history
Appended == {i \in DOMAIN conversation : i > 1 + Len(messages)}

\* C24: each tool message the controller appended has the tool_call_id of
\* a tool call carried by an assistant message earlier in the conversation.
C24_ToolReferencesAssistant ==
    Chat =>
        \A i \in Appended :
            conversation[i].role = "tool" =>
                \E j \in 1..(i - 1) :
                    /\ conversation[j].role = "assistant"
                    /\ \E k \in DOMAIN conversation[j].tool_calls :
                          conversation[j].tool_calls[k].id = conversation[i].tool_call_id

C24_Witness ==
    /\ Chat
    /\ \E i \in Appended :
          /\ conversation[i].role = "tool"
          /\ conversation[i].tool_call_id = "b"
          /\ conversation[i - 1].role = "tool"
          /\ conversation[i - 1].tool_call_id = "a"
          /\ conversation[i - 2].role = "assistant"

\* the position of the last assistant message of the conversation
LastAssistant ==
    CHOOSE i \in DOMAIN conversation :
        /\ conversation[i].role = "assistant"
        /\ \A j \in DOMAIN conversation : j > i => conversation[j].role # "assistant"

\* the conversation ends with the last assistant message and the results
\* of the first n of its tool calls, in order
ResultsSoFar(n) ==
    /\ \E i \in DOMAIN conversation : conversation[i].role = "assistant"
    /\ LET calls == conversation[LastAssistant].tool_calls
       IN  /\ n <= Len(calls)
           /\ Len(conversation) = LastAssistant + n
           /\ \A k \in 1..n :
                 /\ conversation[LastAssistant + k].role = "tool"
                 /\ conversation[LastAssistant + k].tool_call_id = calls[k].id

\* while the tool calls of a turn are executed, the results of the calls
\* before the current one are in the conversation; at a re-invocation all
\* of them are
C25_OneAtATime ==
    Chat =>
        /\ pc \in {"executing", "calling", "completed"} =>
              /\ tool_calls = conversation[LastAssistant].tool_calls
              /\ ResultsSoFar(ti)
        /\ (pc = "model_turn" /\ iteration > 1) =>
              /\ conversation[LastAssistant].tool_calls # <<>>
              /\ ResultsSoFar(Len(conversation[LastAssistant].tool_calls))

\* a tool call is the next one in the order collected, and its result is
\* appended in the same step
C25_NextInOrder ==
    (Chat /\ count'.tool_call # count.tool_call) =>
        /\ pc = "calling"
        /\ count'.tool_call = count.tool_call + 1
        /\ ti' = ti + 1
        /\ Len(conversation') = Len(conversation) + 1
        /\ conversation'[Len(conversation')].tool_call_id
             = conversation[LastAssistant].tool_calls[ti + 1].id

\* C25: the tool calls of a ModelTurn are executed one at a time in the
\* order collected, each result appended as a tool message before the next
\* call starts; whenever the model is re-invoked the conversation ends with
\* the last assistant message followed by one tool message per tool call of
\* it, in the same order and with matching tool_call_ids.
C25_ToolCallsInOrder ==
    []C25_OneAtATime /\ [][C25_NextInOrder]_vars

C25_Witness ==
    /\ Chat
    /\ pc = "model_turn"
    /\ iteration = 2
    /\ Len(conversation[LastAssistant].tool_calls) = 2
    /\ conversation[LastAssistant].tool_calls[1].id # conversation[LastAssistant].tool_calls[2].id
    /\ Len(conversation) = LastAssistant + 2

\* the assistant messages the controller appended
AssistantAppended ==
    Cardinality({i \in Appended : conversation[i].role = "assistant"})

\* the conversation, once built, is the system message and the input history
\* followed by what the controller appended; the input list is as it was
C26_StartsWithHistory ==
    /\ messages = <<create_message("user", <<"topic">>)>>
    /\ conversation # <<>> =>
          /\ Len(conversation) >= 1 + Len(messages)
          /\ conversation[1] = system_message
          /\ SubSeq(conversation, 2, 1 + Len(messages)) = messages

\* C26 as stated: the conversation starts with the system message and the
\* unmodified input history, and a run that has ended appended exactly one
\* assistant message per ModelTurn.
C26_Original ==
    Chat =>
        /\ C26_StartsWithHistory
        /\ Ended => AssistantAppended = ModelTurns

\* one assistant message per ModelTurn whose stream was read to its end
C26_OnePerCompletedTurn ==
    Chat =>
        /\ C26_StartsWithHistory
        /\ AssistantAppended <= ModelTurns
        /\ ModelTurns <= AssistantAppended + 1
        /\ pc \in {"model_turn", "executing", "calling", "completed"}
              => AssistantAppended = ModelTurns
        /\ pc = "streaming" => ModelTurns = AssistantAppended + 1
        /\ Ended => (AssistantAppended = ModelTurns <=> e # "APIError")

\* the conversation only grows at its end, and the input list is not written
C26_AppendOnly ==
    Chat =>
        /\ messages' = messages
        /\ Len(conversation') >= Len(conversation)
        /\ SubSeq(conversation', 1, Len(conversation)) = conversation
        /\ Len(conversation') <= Len(conversation) + 1 \/ conversation = <<>>

\* the step that ends a ModelTurn's stream, and no other, appends an
\* assistant message, and it appends one
C26_AppendsAssistant ==
    Chat =>
        (/\ conversation # <<>>
         /\ conversation' # conversation
         /\ conversation'[Len(conversation')].role = "assistant")
        <=> (pc = "streaming" /\ response = <<>> /\ pc' \notin {"streaming", "closed"})

\* C26: the conversation of research_chat is append-only (every earlier
\* conversation is a prefix of every later one, and it starts with the
\* system message followed by the input history), the input message list is
\* never modified, and exactly one assistant message is appended per
\* ModelTurn whose stream was read to its end (none for a ModelTurn whose
\* completion request or stream failed).
C26_AppendOnlyConversation ==
    []C26_OnePerCompletedTurn /\ [][C26_AppendOnly /\ C26_AppendsAssistant]_vars

C26_Witness ==
    /\ Chat
    /\ Ended
    /\ e = "APIError"
    /\ ModelTurns = 2
    /\ AssistantAppended = 1
    /\ Len(conversation) = 1 + Len(messages) + 2

\* the position in out of the latest Thinking Notify
LastThinking ==
    CHOOSE i \in DOMAIN out :
        /\ out[i].content.text = "Thinking... (iteration)"
        /\ \A j \in DOMAIN out : j > i => out[j].content.text # "Thinking... (iteration)"

\* the texts of the Content events of the latest turn, in the order yielded
TurnForwarded ==
    LET after == SubSeq(out, LastThinking + 1, Len(out))
        IsFragment(f) == IsContent(f)
    IN  [i \in DOMAIN SelectSeq(after, IsFragment) |->
            SelectSeq(after, IsFragment)[i].content.text]

\* the concatenation of fragments, as a text
RECURSIVE Concatenation(_)
Concatenation(fragments) ==
    IF fragments = <<>> THEN <<>>
    ELSE IF Head(fragments) = "" THEN Concatenation(Tail(fragments))
         ELSE <<Head(fragments)>> \o Concatenation(Tail(fragments))

\* the assistant message of the latest turn is in the conversation and no
\* later turn has begun
TurnRecorded ==
    /\ Chat
    /\ ModelTurns >= 1
    /\ AssistantAppended = ModelTurns
    /\ pc \in {"executing", "calling", "completed", "error", "done", "end"}

\* C27 as stated: the recorded content is the concatenation of the
\* fragments forwarded in the turn, and it is null exactly when no fragment
\* was forwarded.
C27_Original ==
    TurnRecorded =>
        /\ conversation[LastAssistant].content = Concatenation(TurnForwarded)
        /\ conversation[LastAssistant].content = <<>> <=> TurnForwarded = <<>>

\* the recorded content is the concatenation of the fragments forwarded in
\* the turn, null when that concatenation is the empty string
C27_RecordedIsForwarded ==
    TurnRecorded =>
        /\ conversation[LastAssistant].content = Concatenation(TurnForwarded)
        /\ TurnForwarded = <<>> => conversation[LastAssistant].content = <<>>
        /\ (\A i \in DOMAIN TurnForwarded : TurnForwarded[i] = "")
              => conversation[LastAssistant].content = <<>>

\* a chunk with content yields one Content event with that content, a chunk
\* without yields none
C27_ForwardsEach ==
    (Chat /\ pc = "streaming" /\ response # <<>> /\ pc' = "streaming") =>
        IF Head(response).content # NULL
        THEN /\ out' = Append(out, create_sse_message(Msg("", Head(response).content)))
             /\ response' = Tail(response)
        ELSE out' = out

\* C27: in each ModelTurn of research_chat every non-null content delta is
\* forwarded as its own Content event in arrival order, and the content of
\* the assistant message appended for that turn is the concatenation, in
\* order, of the fragments forwarded during that turn, null when that
\* concatenation is empty (no fragment, or only empty fragments).
C27_StreamedIsRecorded ==
    []C27_RecordedIsForwarded /\ [][C27_ForwardsEach]_vars

C27_Witness ==
    /\ TurnRecorded
    /\ pc = "executing"
    /\ TurnForwarded = <<"">>
    /\ conversation[LastAssistant].content = <<>>
    /\ conversation[LastAssistant].tool_calls # <<>>

\* the bridge answered the tools/call request with a JSON-RPC error object
ErrorObject(r) ==
    /\ r # NoResponse
    /\ ~r.raises
    /\ r.status = 200
    /\ "error" \in r.keys
    /\ r.message # NULL

\* C28: when the bridge answers a tools/call with an error object, the tool
\* message appended to the conversation is the formatted error and carries
\* the error's message.
C28_ErrorFedBack ==
    (Chat /\ pc = "completed" /\ ErrorObject(tool_response)) =>
        /\ Last(conversation).role = "tool"
        /\ Last(conversation).content
             = <<"Error calling ">> \o tool_calls[ti].function.name
                 \o <<": ", tool_response.message>>

\* the same for an error object that has no "result" member
C28_BareErrorFedBack ==
    (Chat /\ pc = "completed" /\ ErrorObject(tool_response)
          /\ "result" \notin tool_response.keys) =>
        /\ Last(conversation).role = "tool"
        /\ Last(conversation).content
             = <<"Error calling ">> \o tool_calls[ti].function.name
                 \o <<": ", tool_response.message>>

RequiredKeys == {"is_sufficient", "knowledge_gap", "follow_up_queries"}

\* C29: a reflection payload that lacks a required ReflectionResult key is
\* not accepted: whatever the values of the keys present, the run is
\* aborted with an Error event, so it never goes on to a further search
\* round or to Finalize.
C29_MissingKeyAborts ==
    (Fixed /\ reflection_result # NoReflection
           /\ ~(RequiredKeys \subseteq reflection_result.keys)) =>
        /\ pc \notin {"more_info", "finalize", "stream"}
        /\ Ended => e # NULL

\* the same for the one key the loop condition reads
C29_MissingIsSufficientAborts ==
    (Fixed /\ reflection_result # NoReflection
           /\ "is_sufficient" \notin reflection_result.keys) =>
        /\ pc \notin {"more_info", "finalize", "stream"}
        /\ Ended => e # NULL

\* C30: the query list of a QueryGen output that the search phase consumes
\* has at least one query: no first WebResearch round runs with zero
\* searches.
C30_QueriesNonEmpty ==
    (Fixed /\ phases # <<>> /\ Last(phases) = "WebResearch" /\ WebRounds = 1) =>
        /\ queries = query
        /\ Len(queries) >= 1

\* during a round the queries searched are those of QueryGen (first round)
\* or the follow-up queries of the reflection the controller holds
C31_RoundQueries ==
    Fixed =>
        /\ pc = "search_first" => queries = query /\ WebRounds = 1
        /\ pc = "search_loop" =>
              /\ WebRounds = loop + 2
              /\ ReflectRounds = loop + 1
              /\ "follow_up_queries" \in reflection_result.keys
              /\ queries = reflection_result.follow_up_queries

\* the step that begins a round takes the queries of QueryGen or of the
\* latest reflection; the step of a reflection replaces the one held
C31_TakesLatest ==
    Fixed =>
        /\ WebRounds' # WebRounds =>
              /\ queries' = IF WebRounds = 0 THEN query
                            ELSE reflection_result.follow_up_queries
              /\ reflection_result' = reflection_result
              /\ qi' = 0
        /\ (pc \in {"search_first", "search_loop"} /\ pc' \notin {"closed"}) =>
              /\ queries' = queries
              /\ reflection_result' = reflection_result
              /\ qi' # qi => provider' # NoProvider /\ qi' = qi + 1
        /\ query' # query => WebRounds = 0

\* C31: each follow-up WebResearch round searches exactly the
\* follow_up_queries of the most recent reflection, in their order, never
\* the QueryGen queries and never those of an older reflection; the first
\* round searches exactly the QueryGen queries.
C31_FollowUpQueries ==
    []C31_RoundQueries /\ [][C31_TakesLatest]_vars

C31_Witness ==
    /\ Fixed
    /\ pc = "search_loop"
    /\ loop = 1
    /\ qi = 1
    /\ query = <<"a", "b">>
    /\ queries = <<"d">>
    /\ search_context[1].q = "d"

IsPrefix(s, t) == Len(s) <= Len(t) /\ SubSeq(t, 1, Len(s)) = s

\* C32 as stated: in every step of a run of the fixed pipeline the search
\* context before the step is a prefix of the search context after it.
C32_Original ==
    [][Fixed => IsPrefix(search_context, search_context')]_vars

\* the search context holds the results of the current round only
C32_ThisRoundOnly ==
    (Fixed /\ pc \in {"search_first", "search_loop"}) =>
        /\ Len(search_context) = 2 * qi
        /\ qi <= Len(queries)

\* a round begins with the empty search context; within a round the
\* context only grows at its end
C32_ResetThenGrow ==
    Fixed =>
        IF WebRounds' # WebRounds
        THEN search_context' = <<>>
        ELSE /\ IsPrefix(search_context, search_context')
             /\ search_context' # search_context
                   => pc \in {"search_first", "search_loop"}

\* C32: the search context grows monotonically within one WebResearch round
\* and is rebuilt from empty at the start of every round: the formatted
\* results of earlier rounds are not carried into a later round.
C32_ContextPerRound ==
    []C32_ThisRoundOnly /\ [][C32_ResetThenGrow]_vars

C32_Witness ==
    /\ Fixed
    /\ pc = "search_loop"
    /\ WebRounds = 2
    /\ qi = 1
    /\ Len(queries) = 2
    /\ Len(query) = 2
    /\ Len(search_context) = 2

\* a round's summarising completion has returned and no later round began
Summarised ==
    /\ Fixed
    /\ WebRounds >= 1
    /\ \/ count.llm > 2 * WebRounds
       \/ count.llm = 2 * WebRounds /\ e = NULL
    /\ pc \notin {"search_first", "search_loop"}

C33_SummaryAfterRound ==
    Summarised =>
        IF Stream
        THEN \E content \in Summaries : search_summary = <<content>>
        ELSE /\ Len(search_summary) = 2 * WebRounds - 1
             /\ \A i \in DOMAIN search_summary :
                   IF i % 2 = 1 THEN search_summary[i] \in Summaries
                   ELSE search_summary[i] = "\n\n"

\* the step of a round's summarising completion, and no other step, sets
\* the summary
C33_SetByCompletion ==
    Fixed =>
        IF pc \in {"search_first", "search_loop"} /\ count'.llm # count.llm /\ e' = NULL
        THEN \E content \in Summaries :
                search_summary' = IF Archive /\ WebRounds > 1
                                  THEN search_summary \o <<"\n\n", content>>
                                  ELSE <<content>>
        ELSE search_summary' = search_summary

ListFetchFailed ==
    /\ Chat
    /\ count.tools_list = 1
    /\ count.tool_call = 0
    /\ \/ tool_response.raises
       \/ tool_response.status # 200
       \/ tool_response.result # "tools"

\* C34: no phase-level error other than a tool-execution error is swallowed:
\* a failed tool-list fetch at the start of a tool-calling run aborts the
\* run with an Error event, so no ModelTurn follows it.
C34_ListFailureAborts ==
    ListFetchFailed =>
        /\ pc \notin {"model_turn", "streaming", "executing", "calling"}
        /\ ModelTurns = 0
        /\ Ended => e # NULL /\ \E i \in DOMAIN out : IsError(out[i])

\* the failures of the fixed pipeline do abort the run: a raised exception
\* is followed by the Error frame and Done, and by no further request
C34_PipelineFailureAborts ==
    (Fixed /\ pc = "error") =>
        /\ e # NULL
        /\ IsError(Last(out))
        /\ ENABLED AfterError
        /\ ~ENABLED (Step /\ count' # count)

\* while chunks are left the stream is read on, whatever finish reason was
\* seen, and the turn is not ended
C35_ReadOn ==
    (Chat /\ pc = "streaming" /\ response # <<>>) =>
        /\ ENABLED RC_Chunk
        /\ ~ENABLED RC_EndOfStream
        /\ ~ENABLED RC_ModelTurn

\* a streaming completion is requested, and a turn is ended, only when no
\* chunk of the stream before is left
C35_DrainedFirst ==
    Chat =>
        /\ count'.stream # count.stream =>
              /\ response = <<>>
              /\ pc = "model_turn"
              /\ count'.stream = count.stream + 1
        /\ (pc = "streaming" /\ pc' \notin {"streaming", "closed", "error"}) =>
              response = <<>>
        /\ (pc = "streaming" /\ pc' = "streaming" /\ response # <<>>) =>
              response' = Tail(response)

\* C35: in the tool-calling loop a streaming completion is requested only
\* after the stream of the turn before was drained to its last chunk: a run
\* never holds two model streams open, and a stream is read to exhaustion
\* even after a chunk with a finish reason.
C35_OneStreamAtATime ==
    []C35_ReadOn /\ [][C35_DrainedFirst]_vars

C35_Witness ==
    /\ Chat
    /\ pc = "streaming"
    /\ finish_reason = "stop"
    /\ response = <<Chunk("y")>>
    /\ full_content = <<"x">>

\* one tools/list request before the first ModelTurn, none after it; the
\* tool list held is the one that request gave
C36_FetchedOnce ==
    Chat =>
        /\ count.tools_list <= 1
        /\ ModelTurns >= 1 => count.tools_list = 1
        /\ count.tools_list = 0 => mcp_tools = <<>> /\ iteration = 0
        /\ mcp_tools \in ToolLists
        /\ (count.tools_list = 1 /\ count.tool_call = 0)
              => mcp_tools = get_mcp_tools(tool_response)

\* the tools/list request is made outside the loop, and the tool list is
\* not assigned again: every ModelTurn is issued with the list fetched
C36_SameList ==
    Chat =>
        /\ count'.tools_list # count.tools_list =>
              /\ pc = "get_mcp_tools"
              /\ iteration = 0
              /\ ModelTurns = 0
        /\ mcp_tools' # mcp_tools => count'.tools_list # count.tools_list
        /\ ModelTurns' # ModelTurns =>
              /\ count.tools_list = 1
              /\ mcp_tools' = mcp_tools

\* C36: the tool list is fetched from the Tool Bridge exactly once per run
\* of research_chat, before the first ModelTurn; every ModelTurn of the run
\* is issued with that same list, and no tools/list request is made inside
\* the iteration loop.
C36_ToolListOnce ==
    []C36_FetchedOnce /\ [][C36_SameList]_vars

C36_Witness ==
    /\ Chat
    /\ pc = "streaming"
    /\ ModelTurns = 3
    /\ count.tools_list = 1
    /\ count.tool_call >= 2
    /\ mcp_tools = <<"google_search", "scrape">>

\* the completions issued so far, by the phases entered: one for QueryGen,
\* one per summary, one per reflection, one streaming one for Finalize
C37_OnePerPhase ==
    Fixed =>
        /\ count.stream = Occurrences(phases, "Finalize")
        /\ count.stream <= 1
        /\ count.tools_list = 0 /\ count.tool_call = 0
        /\ (Ended /\ e = NULL) =>
              /\ WebRounds = ReflectRounds
              /\ WebRounds >= 1
              /\ count.llm = 1 + 2 * WebRounds
              /\ count.stream = 1

\* a phase issues one completion, and none follows the streaming one
C37_StreamLast ==
    Fixed =>
        /\ count'.llm \in {count.llm, count.llm + 1}
        /\ count'.stream \in {count.stream, count.stream + 1}
        /\ count.stream = 1 => count' = count
        /\ count'.stream # count.stream => pc = "finalize" /\ count'.llm = count.llm

\* C37: each phase of the fixed pipeline issues exactly one LLM completion:
\* a run that completes without error after r WebResearch/Reflect rounds
\* has issued 1 + 2r non-streaming completions and one streaming
\* completion, the streaming one being the last LLM request of the run.
C37_CompletionCount ==
    []C37_OnePerPhase /\ [][C37_StreamLast]_vars

C37_Witness ==
    /\ Fixed
    /\ Ended
    /\ e = NULL
    /\ WebRounds = 2
    /\ Len(query) = 2
    /\ count.llm = 5
    /\ count.stream = 1

KnownTools == {"google_search", "scrape"}

\* the request held names a method the bridge does not have
UnknownMethod == bridge.request.method \notin {"initialize", "tools/list", "tools/call"}

\* the request held is a tools/call with params that name no tool of the
\* bridge
UnknownTool ==
    /\ bridge.request.method = "tools/call"
    /\ bridge.request.params.present
    /\ bridge.request.params.name \notin KnownTools

\* a response is returned, with the id of the request and exactly one of
\* result and error
WellFormed ==
    /\ bridge.response.raises = NULL
    /\ bridge.response.jsonrpc = "2.0"
    /\ bridge.response.id = bridge.request.id
    /\ bridge.response.result = NULL <=> bridge.response.error # NoError

\* C38 as stated: every request is answered by a well-formed response, an
\* unknown method or tool name by code -32601 and every other failure by
\* code -32000.
C38_Original ==
    Answered =>
        /\ WellFormed
        /\ bridge.response.error # NoError =>
              bridge.response.error.code
                 = IF UnknownMethod \/ UnknownTool THEN -32601 ELSE -32000
        /\ (UnknownMethod \/ UnknownTool) => bridge.response.error # NoError

\* C38: MCPServer.handle_request returns a response for every request and
\* never raises; the response has the id of the request and exactly one of
\* result and error; an unknown method, and an unknown tool name when the
\* provider key is configured, is answered by error code -32601, and every
\* other failure by error code -32000, among them every tools/call made
\* while no provider key is configured, whatever tool it names.
C38_TotalWellFormed ==
    Answered =>
        /\ WellFormed
        /\ bridge.response.error # NoError =>
              bridge.response.error.code
                 = IF UnknownMethod \/ (UnknownTool /\ bridge.configured)
                   THEN -32601 ELSE -32000
        /\ (UnknownMethod \/ (UnknownTool /\ bridge.configured))
              => bridge.response.error # NoError
        /\ (bridge.request.method = "tools/call" /\ ~bridge.configured)
              => bridge.response.error # NoError
        /\ bridge.response.result # NULL =>
              \/ bridge.request.method \in {"initialize", "tools/list"}
              \/ /\ bridge.request.method = "tools/call"
                 /\ bridge.configured
                 /\ bridge.request.params.present
                 /\ bridge.request.params.name \in KnownTools
                 /\ bridge.request.params.arguments = "valid"
                 /\ bridge.outcome = "ok"

C38_Witness ==
    /\ Answered
    /\ bridge.served = 2
    /\ bridge.configured
    /\ bridge.request.method = "tools/call"
    /\ ~bridge.request.params.present
    /\ bridge.request.id = "tool_call_search"
    /\ bridge.response.error = [code |-> -32000, message |-> "AttributeError"]

\* the arguments string is not a JSON text: of the strings streamed, only
\* "{}" is one, in one fragment or in two
NotJson(arguments) == arguments \notin {<<"{}">>, <<"{", "}">>}

ErrorFrames == Cardinality({i \in DOMAIN out : IsError(out[i])})

\* after the arguments of a tool call failed to parse: that call and the
\* later ones of the turn were not invoked and have no tool message, and the
\* run ends with one Error frame and Done
C39_AfterBadArguments ==
    (Chat /\ e = "JSONDecodeError") =>
        /\ pc \in {"error", "done", "end", "closed"}
        /\ ti < Len(tool_calls)
        /\ NotJson(tool_calls[ti + 1].function.arguments)
        /\ tool_calls = conversation[LastAssistant].tool_calls
        /\ ResultsSoFar(ti)
        /\ Last(phases) = (IF ti = 0 THEN "ModelTurn" ELSE "ToolExecution")
        /\ ErrorFrames = 1
        /\ Ended => /\ Len(out) >= 2
                    /\ out[Len(out) - 1] = ErrorFrame("JSONDecodeError")
                    /\ Last(out) = DoneFrame

\* the step that reaches a tool call whose arguments are no JSON raises, and
\* after it no tool is called, no message appended and no turn begun
C39_RaisesAndStops ==
    Chat =>
        /\ (/\ pc \in {"executing", "completed"}
            /\ ti < Len(tool_calls)
            /\ NotJson(tool_calls[ti + 1].function.arguments)
            /\ pc' # "closed")
              => /\ e' = "JSONDecodeError"
                 /\ out' = Append(out, ErrorFrame("JSONDecodeError"))
                 /\ count' = count
                 /\ conversation' = conversation
        /\ e = "JSONDecodeError" =>
              /\ count' = count
              /\ conversation' = conversation
              /\ phases' = phases
              /\ e' = e

\* C39: in research_chat, when the arguments string of a complete tool call
\* is not valid JSON (the empty string included), that tool and all later
\* tool calls of the turn are not invoked, no tool message is appended for
\* them, no further ModelTurn happens, and the run ends with exactly one
\* Error event followed by Done.
C39_BadArgumentsAbort ==
    []C39_AfterBadArguments /\ [][C39_RaisesAndStops]_vars

C39_Witness ==
    /\ Chat
    /\ Ended
    /\ e = "JSONDecodeError"
    /\ Len(tool_calls) = 2
    /\ ti = 1
    /\ count.tool_call = 1
    /\ Last(conversation).role = "tool"
    /\ Last(conversation).tool_call_id = "a"

====
